---------------------------- MODULE Spec2Model ----------------------------
(***************************************************************************)
(* Contract review pipeline: process_document.ts (parent), the             *)
(* extract_knowledge.ts child it spawns, the record store's PUT handler,   *)
(* the processing service (server.ts) and the upload route.                *)
(*                                                                         *)
(* A JavaScript string is a sequence of one-character strings, so that     *)
(* trim, split, toLowerCase, includes and substring are computed and not   *)
(* assumed.  A JavaScript value is a record tagged with its type.          *)
(***************************************************************************)
EXTENDS Integers, Sequences, FiniteSets, TLC

\* ------------------------------------------------------------------------
\* Strings
\* ------------------------------------------------------------------------

\* The characters of a string literal.
Chars(s) == [i \in 1..Len(s) |-> SubSeq(s, i, i)]

Min(a, b) == IF a < b THEN a ELSE b

IsSpace(c) == c \in {" ", "\n", "\t", "\r"}

UpperCase == Chars("ABCDEFGHIJKLMNOPQRSTUVWXYZ")

LowerCase == Chars("abcdefghijklmnopqrstuvwxyz")

LowerChar(c) ==
    IF \E k \in 1..Len(UpperCase) : UpperCase[k] = c
    THEN LowerCase[CHOOSE k \in 1..Len(UpperCase) : UpperCase[k] = c]
    ELSE c

\* String.prototype.toLowerCase
ToLowerCase(s) == [i \in 1..Len(s) |-> LowerChar(s[i])]

\* String.prototype.includes
Includes(s, k) ==
    \E i \in 1..(Len(s) - Len(k) + 1) : \A j \in 1..Len(k) : s[i + j - 1] = k[j]

\* String.prototype.endsWith
EndsWith(s, k) ==
    /\ Len(k) <= Len(s)
    /\ SubSeq(s, Len(s) - Len(k) + 1, Len(s)) = k

\* String.prototype.substring(0, n)
Substring0(s, n) == SubSeq(s, 1, Min(n, Len(s)))

RECURSIVE FirstNonSpace(_, _)
FirstNonSpace(s, i) ==
    IF i > Len(s) \/ ~IsSpace(s[i]) THEN i ELSE FirstNonSpace(s, i + 1)

RECURSIVE LastNonSpace(_, _)
LastNonSpace(s, i) ==
    IF i < 1 \/ ~IsSpace(s[i]) THEN i ELSE LastNonSpace(s, i - 1)

\* String.prototype.trim
Trim(s) == SubSeq(s, FirstNonSpace(s, 1), LastNonSpace(s, Len(s)))

\* The positions where the separator "\n\n" starts.
BlankLineStarts(s) == {i \in 1..(Len(s) - 1) : s[i] = "\n" /\ s[i + 1] = "\n"}

\* The pieces of s from position `from` on, cut at the separators found
\* left to right without overlap (starts: the positions not yet passed).
RECURSIVE SplitFrom(_, _, _)
SplitFrom(s, from, starts) ==
    LET ahead == {i \in starts : i >= from}
    IN  IF ahead = {}
        THEN <<SubSeq(s, from, Len(s))>>
        ELSE LET i == CHOOSE m \in ahead : \A o \in ahead : m <= o
             IN  <<SubSeq(s, from, i - 1)>> \o SplitFrom(s, i + 2, ahead \ {i})

\* text.split('\n\n')
SplitBlankLines(s) == SplitFrom(s, 1, BlankLineStarts(s))

NL2 == <<"\n", "\n">>

\* ------------------------------------------------------------------------
\* JavaScript values
\* ------------------------------------------------------------------------

Undefined == [t |-> "undefined"]

Null == [t |-> "null"]

Str(s) == [t |-> "string", v |-> s]

Num(n) == [t |-> "number", v |-> n]

Bool(b) == [t |-> "boolean", v |-> b]

Arr(a) == [t |-> "array", v |-> a]

\* An object: f is a record of its own properties.
Obj(f) == [t |-> "object", v |-> f]

IsString(x) == x.t = "string"

IsNullish(x) == x.t \in {"undefined", "null"}

\* ToBoolean
Truthy(x) ==
    CASE x.t = "string" -> x.v # <<>>
      [] x.t = "number" -> x.v # 0
      [] x.t = "boolean" -> x.v
      [] x.t \in {"undefined", "null"} -> FALSE
      [] OTHER -> TRUE

\* a || b
OrElse(a, b) == IF Truthy(a) THEN a ELSE b

\* x.name, for a value x that is not null or undefined (reading a property of
\* those throws a TypeError, which every caller tests with IsNullish first).
\* The names read here are no property of a string, a number or an array.
Get(x, name) ==
    IF x.t = "object" /\ name \in DOMAIN x.v THEN x.v[name] ELSE Undefined


\* ------------------------------------------------------------------------
\* Keyword fallback extractor (extract_knowledge.ts)
\* ------------------------------------------------------------------------

NoIndemnification == Chars("No indemnification clause found.")

NoTermination == Chars("No termination for convenience clause found.")

\* if (lowerParagraph.includes('indemnif') || ... 'security breach')
IsIndemnificationParagraph(paragraph) ==
    LET lowerParagraph == ToLowerCase(paragraph)
    IN  \/ Includes(lowerParagraph, Chars("indemnif"))
        \/ Includes(lowerParagraph, Chars("liability"))
        \/ Includes(lowerParagraph, Chars("data breach"))
        \/ Includes(lowerParagraph, Chars("security breach"))

\* Mutant: the termination stem alone is enough.
TerminationStemOnly(paragraph) == Includes(ToLowerCase(paragraph), Chars("terminat"))

\* if (lowerParagraph.includes('terminat') && (... 'convenience' || 'at will'))
IsTerminationParagraph(paragraph) ==
    LET lowerParagraph == ToLowerCase(paragraph)
    IN  /\ Includes(lowerParagraph, Chars("terminat"))
        /\ \/ Includes(lowerParagraph, Chars("convenience"))
           \/ Includes(lowerParagraph, Chars("at will"))

\* The for loop over the paragraphs from the i-th on: buf is the pair of
\* buffers built so far.
RECURSIVE KeywordLoop(_, _, _)
KeywordLoop(paragraphs, i, buf) ==
    IF i > Len(paragraphs) THEN buf
    ELSE LET paragraph == paragraphs[i]
         IN  KeywordLoop(paragraphs, i + 1,
                [indemnificationText |->
                    IF IsIndemnificationParagraph(paragraph)
                    THEN buf.indemnificationText \o paragraph \o NL2
                    ELSE buf.indemnificationText,
                 terminationText |->
                    IF IsTerminationParagraph(paragraph)
                    THEN buf.terminationText \o paragraph \o NL2
                    ELSE buf.terminationText])

\* Mutant: the trimmed buffers are returned as they are.
KeywordsWithoutSentinels(text) ==
    LET buf == KeywordLoop(SplitBlankLines(text), 1,
                   [indemnificationText |-> <<>>, terminationText |-> <<>>])
    IN  [indemnificationText |-> Str(Trim(buf.indemnificationText)),
         terminationText |-> Str(Trim(buf.terminationText))]

\* Lines 347-383
extractClausesWithKeywords(text) ==
    LET buf == KeywordLoop(SplitBlankLines(text), 1,
                   [indemnificationText |-> <<>>, terminationText |-> <<>>])
    IN  [indemnificationText |->
            OrElse(Str(Trim(buf.indemnificationText)), Str(NoIndemnification)),
         terminationText |->
            OrElse(Str(Trim(buf.terminationText)), Str(NoTermination))]

\* ------------------------------------------------------------------------
\* AI-backed clause extractor (extract_knowledge.ts)
\* ------------------------------------------------------------------------

\* The character budget of the prompt.
PromptChars == 15000

\* Mutant: the whole text is interpolated into the prompt.
WholePrompt(text) == text

\* The contract text interpolated into the prompt.
PromptText(text) == Substring0(text, PromptChars)

\* JSON.parse, given by its value on the texts the model's answers are made
\* of; it throws a SyntaxError (ok = FALSE) on every other text.
JNull == Chars("null")

JNumber == Chars("42")

JString == Chars("\"none\"")

JArray == Chars("[]")

JObjects == Chars("[{\"indemnificationText\":\"A\"},{\"terminationText\":\"B\"}]")

JEmptyObject == Chars("{}")

JBoth == Chars("{\"indemnificationText\":\"Vendor indemnifies.\",\"terminationText\":\"Terminate at will.\"}")

JOnlyIndemnification == Chars("{\"indemnificationText\":\"Vendor indemnifies.\"}")

JOnlyTermination == Chars("{\"terminationText\":\"Terminate at will.\"}")

JEmptyField == Chars("{\"indemnificationText\":\"\",\"terminationText\":\"Terminate at will.\"}")

JNullFields == Chars("{\"indemnificationText\":null,\"terminationText\":null}")

JNumberField == Chars("{\"indemnificationText\":42,\"terminationText\":\"Terminate at will.\"}")

JObjectField == Chars("{\"indemnificationText\":\"Vendor indemnifies.\",\"terminationText\":{\"text\":\"Terminate at will.\"}}")

VendorIndemnifies == Str(Chars("Vendor indemnifies."))

TerminateAtWill == Str(Chars("Terminate at will."))

JSONTable ==
    { <<JNull, Null>>,
      <<JNumber, Num(42)>>,
      <<JString, Str(Chars("none"))>>,
      <<JArray, Arr(<<>>)>>,
      <<JObjects, Arr(<<Obj([indemnificationText |-> Str(Chars("A"))]),
                        Obj([terminationText |-> Str(Chars("B"))])>>)>>,
      <<JEmptyObject, Obj(<<>>)>>,
      <<JBoth, Obj([indemnificationText |-> VendorIndemnifies,
                    terminationText |-> TerminateAtWill])>>,
      <<JOnlyIndemnification, Obj([indemnificationText |-> VendorIndemnifies])>>,
      <<JOnlyTermination, Obj([terminationText |-> TerminateAtWill])>>,
      <<JEmptyField, Obj([indemnificationText |-> Str(<<>>),
                          terminationText |-> TerminateAtWill])>>,
      <<JNullFields, Obj([indemnificationText |-> Null,
                          terminationText |-> Null])>>,
      <<JNumberField, Obj([indemnificationText |-> Num(42),
                           terminationText |-> TerminateAtWill])>>,
      <<JObjectField, Obj([indemnificationText |-> VendorIndemnifies,
                           terminationText |-> Obj([text |-> TerminateAtWill])])>> }

JSONParse(s) ==
    LET key == Trim(s)
    IN  IF \E e \in JSONTable : e[1] = key
        THEN [ok |-> TRUE, value |-> (CHOOSE e \in JSONTable : e[1] = key)[2]]
        ELSE [ok |-> FALSE]

\* responseContent.match(/\{[\s\S]*\}/): from the first "{" to the last "}"
\* after it; found = FALSE when there is none.
JsonMatch(s) ==
    LET opens == {i \in 1..Len(s) : s[i] = "{"}
        closes == {i \in 1..Len(s) : s[i] = "}"}
    IN  IF opens = {} \/ closes = {} THEN [found |-> FALSE]
        ELSE LET first == CHOOSE i \in opens : \A o \in opens : i <= o
                 last == CHOOSE i \in closes : \A o \in closes : i >= o
             IN  IF first < last
                 THEN [found |-> TRUE, text |-> SubSeq(s, first, last)]
                 ELSE [found |-> FALSE]

\* Lines 311-322: the parse of the matched substring when there is a match,
\* of the whole response otherwise.
ParseResponse(responseContent) ==
    LET jsonMatch == JsonMatch(responseContent)
    IN  IF jsonMatch.found THEN JSONParse(jsonMatch.text)
        ELSE JSONParse(responseContent)

\* Mutant: the fields as parsed, a missing one left undefined.
FieldsWithoutSentinels(parsedResponse) ==
    [indemnificationText |-> Get(parsedResponse, "indemnificationText"),
     terminationText |-> Get(parsedResponse, "terminationText")]

\* Mutant: one missing field makes both fields their sentinels.
FieldsBothOrNeither(parsedResponse) ==
    IF Truthy(Get(parsedResponse, "indemnificationText"))
       /\ Truthy(Get(parsedResponse, "terminationText"))
    THEN [indemnificationText |-> Get(parsedResponse, "indemnificationText"),
          terminationText |-> Get(parsedResponse, "terminationText")]
    ELSE [indemnificationText |-> Str(NoIndemnification),
          terminationText |-> Str(NoTermination)]

\* Lines 324-329, for a parsed response that is not null.
FieldsOrSentinels(parsedResponse) ==
    [indemnificationText |->
        OrElse(Get(parsedResponse, "indemnificationText"), Str(NoIndemnification)),
     terminationText |->
        OrElse(Get(parsedResponse, "terminationText"), Str(NoTermination))]

\* Whether the extractor ends in one of its two catch blocks: the call threw,
\* the content is empty (line 306), the parse threw, or the parsed value is
\* null, whose property read throws inside the inner try.
FallsBack(response) ==
    \/ response.threw
    \/ ~Truthy(response.content)
    \/ LET parsed == ParseResponse(response.content.v)
       IN  ~parsed.ok \/ IsNullish(parsed.value)

\* Mutant: the catch blocks hand over the prompt's prefix of the text.
TruncatedFallbackText(text) == PromptText(text)

\* The text the catch blocks hand to the keyword extractor.
FallbackText(text) == text

\* extractClausesWithAI(text), given what the model call did: response is
\* [threw |-> TRUE] or [threw |-> FALSE, content |-> Null or a string].
extractClausesWithAI(text, response) ==
    IF FallsBack(response)
    THEN extractClausesWithKeywords(FallbackText(text))
    ELSE FieldsOrSentinels(ParseResponse(response.content.v).value)

\* ------------------------------------------------------------------------
\* OCR JSON reassembler (extract_knowledge.ts)
\* ------------------------------------------------------------------------

Digits == Chars("0123456789")

RECURSIVE NatToString(_)
NatToString(n) ==
    IF n < 10 THEN <<Digits[n + 1]>>
    ELSE NatToString(n \div 10) \o <<Digits[(n % 10) + 1]>>

\* What `extractedText += x` appends for a value x (arrays do not occur as
\* annotation or symbol text).
ToStringJS(x) ==
    CASE x.t = "string" -> x.v
      [] x.t = "number" -> NatToString(x.v)
      [] x.t = "boolean" -> IF x.v THEN Chars("true") ELSE Chars("false")
      [] OTHER -> Chars("[object Object]")

\* for (const e of x) throws a TypeError unless x is iterable.
IsIterable(x) == x.t \in {"array", "string"}

Items(x) ==
    IF x.t = "array" THEN x.v ELSE [i \in 1..Len(x.v) |-> Str(<<x.v[i]>>)]

\* x[0]
Index0(x) ==
    IF IsIterable(x) /\ Len(x.v) > 0 THEN Items(x)[1] ELSE Undefined

\* The state of extractTextFromOcrJson's try block: the text gathered so far
\* and whether a TypeError has been thrown (the loops stop there).
Thrown(acc) == [acc EXCEPT !.thrown = TRUE]

Gathered(acc, s) == [acc EXCEPT !.text = @ \o s]

\* Lines 208-212
RECURSIVE DirectLoop(_, _, _)
DirectLoop(responses, i, acc) ==
    IF acc.thrown \/ i > Len(responses) THEN acc
    ELSE LET response == responses[i]
         IN  IF IsNullish(response) THEN Thrown(acc)
             ELSE LET annotation == Get(response, "fullTextAnnotation")
                  IN  IF Truthy(annotation) /\ Truthy(Get(annotation, "text"))
                      THEN DirectLoop(responses, i + 1,
                               Gathered(acc, ToStringJS(Get(annotation, "text")) \o NL2))
                      ELSE DirectLoop(responses, i + 1, acc)

\* Lines 241-243
RECURSIVE SymbolLoop(_, _, _)
SymbolLoop(symbols, i, acc) ==
    IF acc.thrown \/ i > Len(symbols) THEN acc
    ELSE IF IsNullish(symbols[i]) THEN Thrown(acc)
    ELSE SymbolLoop(symbols, i + 1,
             Gathered(acc, ToStringJS(OrElse(Get(symbols[i], "text"), Str(<<>>)))))

\* Mutant: no space is appended after a word.
RECURSIVE WordLoopNoSpace(_, _, _)
WordLoopNoSpace(words, i, acc) ==
    IF acc.thrown \/ i > Len(words) THEN acc
    ELSE IF IsNullish(words[i]) THEN Thrown(acc)
    ELSE LET symbols == Get(words[i], "symbols")
         IN  IF ~Truthy(symbols) THEN WordLoopNoSpace(words, i + 1, acc)
             ELSE IF ~IsIterable(symbols) THEN Thrown(acc)
             ELSE LET inner == SymbolLoop(Items(symbols), 1, acc)
                  IN  IF inner.thrown THEN inner
                      ELSE WordLoopNoSpace(words, i + 1, inner)

\* Lines 238-246
RECURSIVE WordLoop(_, _, _)
WordLoop(words, i, acc) ==
    IF acc.thrown \/ i > Len(words) THEN acc
    ELSE IF IsNullish(words[i]) THEN Thrown(acc)
    ELSE LET symbols == Get(words[i], "symbols")
         IN  IF ~Truthy(symbols) THEN WordLoop(words, i + 1, acc)
             ELSE IF ~IsIterable(symbols) THEN Thrown(acc)
             ELSE LET inner == SymbolLoop(Items(symbols), 1, acc)
                  IN  IF inner.thrown THEN inner
                      ELSE WordLoop(words, i + 1, Gathered(inner, <<" ">>))

\* Lines 235-249
RECURSIVE ParagraphLoop(_, _, _)
ParagraphLoop(paragraphs, i, acc) ==
    IF acc.thrown \/ i > Len(paragraphs) THEN acc
    ELSE IF IsNullish(paragraphs[i]) THEN Thrown(acc)
    ELSE LET words == Get(paragraphs[i], "words")
             inner == IF ~Truthy(words) THEN acc
                      ELSE IF ~IsIterable(words) THEN Thrown(acc)
                      ELSE WordLoop(Items(words), 1, acc)
         IN  IF inner.thrown THEN inner
             ELSE ParagraphLoop(paragraphs, i + 1, Gathered(inner, <<"\n">>))

\* Lines 232-251
RECURSIVE BlockLoop(_, _, _)
BlockLoop(blocks, i, acc) ==
    IF acc.thrown \/ i > Len(blocks) THEN acc
    ELSE IF IsNullish(blocks[i]) THEN Thrown(acc)
    ELSE LET paragraphs == Get(blocks[i], "paragraphs")
             inner == IF ~Truthy(paragraphs) THEN acc
                      ELSE IF ~IsIterable(paragraphs) THEN Thrown(acc)
                      ELSE ParagraphLoop(Items(paragraphs), 1, acc)
         IN  IF inner.thrown THEN inner ELSE BlockLoop(blocks, i + 1, inner)

\* Lines 227-255
RECURSIVE PageLoop(_, _, _)
PageLoop(pages, i, acc) ==
    IF acc.thrown \/ i > Len(pages) THEN acc
    ELSE IF IsNullish(pages[i]) THEN Thrown(acc)
    ELSE LET blocks == Get(pages[i], "blocks")
         IN  IF ~Truthy(blocks) THEN PageLoop(pages, i + 1, acc)
             ELSE IF ~IsIterable(blocks) THEN Thrown(acc)
             ELSE LET inner == BlockLoop(Items(blocks), 1, acc)
                  IN  IF inner.thrown THEN inner
                      ELSE PageLoop(pages, i + 1, Gathered(inner, NL2))

\* Lines 205-213: the direct path.
DirectPath(jsonContent) ==
    LET start == [text |-> <<>>, thrown |-> FALSE]
    IN  IF IsNullish(jsonContent) THEN Thrown(start)
        ELSE LET responses == Get(jsonContent, "responses")
             IN  IF Truthy(responses) /\ responses.t = "array"
                 THEN DirectLoop(responses.v, 1, start)
                 ELSE start

\* Mutant: the walk reads the pages of the last response.
WalkLastPages(jsonContent) ==
    LET responses == Get(jsonContent, "responses")
        last == IF Truthy(responses) /\ IsIterable(responses) /\ Len(responses.v) > 0
                THEN Items(responses)[Len(responses.v)] ELSE Undefined
        annotation == IF Truthy(last) THEN Get(last, "fullTextAnnotation")
                      ELSE Undefined
    IN  IF Truthy(annotation) THEN Get(annotation, "pages") ELSE Undefined

\* The pages the structural walk reads (line 224), when its condition
\* (lines 216-222) holds for a shard whose direct path gathered nothing.
WalkPages(jsonContent) ==
    LET responses == Get(jsonContent, "responses")
        first == IF Truthy(responses) THEN Index0(responses) ELSE Undefined
        annotation == IF Truthy(first) THEN Get(first, "fullTextAnnotation")
                      ELSE Undefined
    IN  IF Truthy(annotation) THEN Get(annotation, "pages") ELSE Undefined

\* Lines 204-259: the try block, with the text it had gathered when it
\* ended or threw.
OcrTry(jsonContent) ==
    LET direct == DirectPath(jsonContent)
    IN  IF direct.thrown THEN direct
        ELSE IF direct.text = <<>> /\ Truthy(WalkPages(jsonContent))
        THEN LET pages == WalkPages(jsonContent)
             IN  PageLoop(IF IsIterable(pages) THEN Items(pages) ELSE <<>>, 1, direct)
        ELSE direct

\* What the function returns after its try/catch (line 261).
ReturnedText(acc) == Trim(acc.text)

extractTextFromOcrJson(jsonContent) == ReturnedText(OcrTry(jsonContent))

\* A downloaded shard's bytes: corrupt (JSON.parse of them throws) or the
\* text of a JSON value.
CorruptContent == [corrupt |-> TRUE]

JsonContent(value) == [corrupt |-> FALSE, json |-> value]

\* Lines 456-470: one shard's contribution appended to combinedText.
AppendShard(combinedText, content) ==
    IF content.corrupt THEN combinedText
    ELSE LET extractedText == extractTextFromOcrJson(content.json)
         IN  IF extractedText # <<>>
             THEN combinedText \o extractedText \o NL2
             ELSE combinedText

\* Shards ---------------------------------------------------------------

Annotated(text) == Obj([fullTextAnnotation |-> Obj([text |-> Str(Chars(text))])])

Symbol(c) == Obj([text |-> Str(<<c>>)])

Word(w) == Obj([symbols |-> Arr([i \in 1..Len(w) |-> Symbol(SubSeq(w, i, i))])])

Paged(pages) == Obj([fullTextAnnotation |-> Obj([pages |-> Arr(pages)])])

OnePage(words) ==
    Obj([blocks |-> Arr(<<Obj([paragraphs |-> Arr(<<Obj([words |-> Arr(words)])>>)])>>)])

\* { responses: [ { fullTextAnnotation: { text: "Hello World" } } ] }
ShardHello == Obj([responses |-> Arr(<<Annotated("Hello World")>>)])

ShardIndemnify ==
    Obj([responses |->
        Arr(<<Annotated("The vendor shall indemnify the client for any data breach.\n")>>)])

ShardTerminate ==
    Obj([responses |->
        Arr(<<Annotated("This Agreement may be terminated for convenience by either party.")>>)])

\* No flattened text: one page, one block, one paragraph, two words.
ShardWalk == Obj([responses |-> Arr(<<Paged(<<OnePage(<<Word("word1"), Word("word2")>>)>>)>>)])

\* { responses: [ {...text: "Partial"}, null ] }: the direct path throws on
\* the second response.
ShardNullResponse == Obj([responses |-> Arr(<<Annotated("Partial"), Null>>)])

\* The walk throws on the null symbol that follows "A".
ShardNullSymbol ==
    Obj([responses |->
        Arr(<<Paged(<<OnePage(<<Obj([symbols |-> Arr(<<Symbol("A"), Null>>)])>>)>>)>>)])

\* The JSON text "null": reading .responses throws at once.
ShardNull == Null

\* {}
ShardEmpty == Obj(<<>>)

\* Shards for the structural walk: two pages; two paragraphs; pages in two
\* responses; pages in the second response only; pages in the first response
\* and the flattened text in the second; both in one response.
OneWordPage(w) == OnePage(<<Word(w)>>)

ShardTwoPages == Obj([responses |-> Arr(<<Paged(<<OneWordPage("ab"), OneWordPage("cd")>>)>>)])

ShardTwoParagraphs ==
    Obj([responses |->
        Arr(<<Paged(<<Obj([blocks |->
            Arr(<<Obj([paragraphs |-> Arr(<<Obj([words |-> Arr(<<Word("a")>>)]),
                                           Obj([words |-> Arr(<<Word("b")>>)])>>)])>>)])>>)>>)])

ShardLaterPages ==
    Obj([responses |-> Arr(<<Paged(<<OneWordPage("ab")>>), Paged(<<OneWordPage("cd")>>)>>)])

ShardPagesSecond ==
    Obj([responses |-> Arr(<<Obj(<<>>), Paged(<<OneWordPage("cd")>>)>>)])

ShardMixed ==
    Obj([responses |-> Arr(<<Paged(<<OneWordPage("ab")>>), Annotated("Flat")>>)])

ShardBoth ==
    Obj([responses |->
        Arr(<<Obj([fullTextAnnotation |->
                  Obj([text |-> Str(Chars("Both")), pages |-> Arr(<<OneWordPage("xy")>>)])])>>)])

\* A page the engine found nothing but white space on.
ShardBlank == Obj([responses |-> Arr(<<Annotated(" \n")>>)])

\* ------------------------------------------------------------------------
\* Record store: PUT /api/contracts/[id]
\* ------------------------------------------------------------------------

\* enum ContractStatus of the schema
ContractStatus == {"pending", "processing", "extracting", "completed", "failed"}

\* The record prisma.contract.create makes (upload/route.ts): the schema's
\* defaults.
NewRecord(fileName) ==
    [fileName |-> fileName, uploadedAt |-> "now", status |-> "pending", progress |-> 0,
     indemnificationText |-> Null, terminationText |-> Null]

\* Mutant: the handler forgets the termination clause.
UpdateDataWithoutTermination(data) ==
    [k \in {"status"}
          \cup {f \in {"indemnificationText"} :
                    f \in DOMAIN data /\ Truthy(data[f])} |-> data[k]]

\* Lines 39-51 of the handler: the status, and each clause field of the
\* request body that is truthy.
UpdateData(data) ==
    [k \in {"status"}
          \cup {f \in {"indemnificationText", "terminationText"} :
                    f \in DOMAIN data /\ Truthy(data[f])} |-> data[k]]

\* prisma.contract.update rejects data that does not fit the schema: the
\* status is a ContractStatus, the clause fields are String?.
FitsSchema(updateData) ==
    /\ updateData.status \in ContractStatus
    /\ \A f \in DOMAIN updateData \ {"status"} : IsString(updateData[f])

\* Mutant: the update replaces the clause fields it is not given by null.
ReplaceRecord(record, updateData) ==
    [f \in DOMAIN record |->
        IF f \in DOMAIN updateData THEN updateData[f]
        ELSE IF f \in {"indemnificationText", "terminationText"} THEN Null
        ELSE record[f]]

\* prisma.contract.update on an existing record: the fields of updateData
\* replace the record's, the others stay.
ApplyUpdate(record, updateData) ==
    [f \in DOMAIN record |-> IF f \in DOMAIN updateData THEN updateData[f] ELSE record[f]]

\* Mutant: an update to an id that is not there creates the record.
PutUpserts(store, contractId, data) ==
    IF "status" \notin DOMAIN data \/ data.status = ""
    THEN [code |-> 400, store |-> store]
    ELSE LET updateData == UpdateData(data)
         IN  IF ~FitsSchema(updateData) THEN [code |-> 500, store |-> store]
             ELSE IF contractId \notin DOMAIN store
             THEN [code |-> 200,
                   store |-> (contractId :> ApplyUpdate(NewRecord(contractId), updateData))
                                 @@ store]
             ELSE [code |-> 200,
                   store |-> [store EXCEPT ![contractId] = ApplyUpdate(@, updateData)]]

\* Mutant: a record that is completed or failed is not updated any more.
PutGuardsTerminal(store, contractId, data) ==
    IF "status" \notin DOMAIN data \/ data.status = ""
    THEN [code |-> 400, store |-> store]
    ELSE LET updateData == UpdateData(data)
         IN  IF ~FitsSchema(updateData) THEN [code |-> 500, store |-> store]
             ELSE IF contractId \notin DOMAIN store THEN [code |-> 404, store |-> store]
             ELSE IF store[contractId].status \in {"completed", "failed"}
             THEN [code |-> 409, store |-> store]
             ELSE [code |-> 200,
                   store |-> [store EXCEPT ![contractId] = ApplyUpdate(@, updateData)]]

\* The PUT handler: the response's status code and the store after it.
PUT(store, contractId, data) ==
    IF "status" \notin DOMAIN data \/ data.status = ""
    THEN [code |-> 400, store |-> store]
    ELSE LET updateData == UpdateData(data)
         IN  IF ~FitsSchema(updateData) THEN [code |-> 500, store |-> store]
             ELSE IF contractId \notin DOMAIN store THEN [code |-> 404, store |-> store]
             ELSE [code |-> 200,
                   store |-> [store EXCEPT ![contractId] = ApplyUpdate(@, updateData)]]

\* ------------------------------------------------------------------------
\* Status reporter: updateContractStatus
\* ------------------------------------------------------------------------

\* process_document.ts: the request body is { status }.
ParentPayload(status) == [status |-> status]

\* extract_knowledge.ts, lines 397-407: clauses is Undefined (no third
\* argument) or the object the extractor returned.
ChildPayload(status, clauses) ==
    [k \in {"status"}
          \cup (IF Truthy(clauses)
                THEN {f \in {"indemnificationText", "terminationText"} :
                          Truthy(Get(clauses, f))}
                ELSE {}) |-> IF k = "status" THEN status ELSE Get(clauses, k)]

\* axios.put: the request reaches the handler (delivered) or fails on the
\* way; the promise resolves only on a 2xx response.  The caller catches
\* every failure and goes on.
SendUpdate(store, contractId, payload, delivered) ==
    IF delivered
    THEN LET response == PUT(store, contractId, payload)
         IN  [ok |-> response.code = 200, store |-> response.store]
    ELSE [ok |-> FALSE, store |-> store]

\* ------------------------------------------------------------------------
\* The pipeline: process_document.ts and the extract_knowledge.ts child
\* ------------------------------------------------------------------------

\* Documents that have been uploaded.
NumDocs == 2

Docs == 1..NumDocs

\* The most files the OCR engine leaves under one output prefix.
MaxFiles == 2

VARIABLES
    records,    \* the record store: id -> record
    blobs,      \* the blob store: document -> the files under output/<id>/
    dataDir,    \* the ai-service's local data directory
    parent,     \* process_document.ts: where each document's run stands
    child,      \* extract_knowledge.ts: position and locals of each run
    hist,       \* what each run has done so far, in order
    xPhase,     \* the clause extractor on its own: where the call stands
    xText,      \*   its argument
    xResponse,  \*   what the model call did
    xResult,    \*   what it returned
    upload,     \* upload/route.ts: where each document's upload stands
    web,        \* the HTTP exchanges of the upload route, the processing
                \*   service and the record store's clients, in order
    calls       \* the calls the clause extractor has made to the model and
                \*   to the keyword extractor, with the text given to each

pipeVars == <<records, blobs, dataDir, parent, child, hist>>

extractVars == <<xPhase, xText, xResponse, xResult>>

webVars == <<upload, web>>

vars == <<records, blobs, dataDir, parent, child, hist,
          xPhase, xText, xResponse, xResult, upload, web, calls>>

Event(ev, arg, ok) == [ev |-> ev, arg |-> arg, ok |-> ok]

Log(d, events) == hist' = [hist EXCEPT ![d] = @ \o events]

\* A file of the blob store.
File(name, content) == [name |-> Chars(name), content |-> content]

\* data/extracted_knowledge_<id>.txt and the two clause files.
KnowledgeFile(id) == <<"extracted_knowledge", id>>

IndemnificationFile(id) == <<"indemnification_clause", id>>

TerminationFile(id) == <<"termination_clause", id>>

\* The file an earlier, finished run left in the data directory.
Leftover == KnowledgeFile(0)

NoChild ==
    [pc |-> "none", files |-> <<>>, i |-> 0, combinedText |-> <<>>,
     clauses |-> Undefined, toUnlink |-> {}, exitCode |-> -1]

PipeInit ==
    /\ records = [d \in Docs |-> NewRecord(d)]
    /\ blobs = [d \in Docs |-> <<>>]
    /\ dataDir \in {[exists |-> FALSE, files |-> {}],
                    [exists |-> TRUE, files |-> {}],
                    [exists |-> TRUE, files |-> {Leftover}]}
    /\ parent = [d \in Docs |-> "idle"]
    /\ child = [d \in Docs |-> NoChild]
    /\ hist = [d \in Docs |-> <<>>]
    /\ calls = <<>>

\* Mutant: a status update that is not applied throws into main's catch.
ParentUpdateThrows(d, status, next) ==
    \E delivered \in BOOLEAN :
        LET sent == SendUpdate(records, d, ParentPayload(status), delivered)
        IN  /\ records' = sent.store
            /\ Log(d, <<Event("update", status, sent.ok)>>)
            /\ parent' = [parent EXCEPT ![d] = IF sent.ok THEN next ELSE "catch"]

\* updateContractStatus of the parent, then the next position.
ParentUpdate(d, status, next) ==
    \E delivered \in BOOLEAN :
        LET sent == SendUpdate(records, d, ParentPayload(status), delivered)
        IN  /\ records' = sent.store
            /\ Log(d, <<Event("update", status, sent.ok)>>)
            /\ parent' = [parent EXCEPT ![d] = next]

\* updateContractStatus of the child, then the child's next state.
ChildUpdate(d, status, clauses, next) ==
    \E delivered \in BOOLEAN :
        LET sent == SendUpdate(records, d, ChildPayload(status, clauses), delivered)
        IN  /\ records' = sent.store
            /\ Log(d, <<Event("update", status, sent.ok)>>)
            /\ child' = [child EXCEPT ![d] = next]

\* server.ts, line 48: exec of process_document.ts for the document.
Start(d) ==
    /\ parent[d] = "idle"
    /\ parent' = [parent EXCEPT ![d] = "processing"]
    /\ UNCHANGED <<records, blobs, dataDir, child, hist, extractVars, webVars, calls>>

\* Mutant: the first update sends the status its comment names, pending.
ParentProcessingSendsPending(d) ==
    /\ parent[d] = "processing"
    /\ ParentUpdate(d, "pending", "ocrSubmit")
    /\ UNCHANGED <<blobs, dataDir, child, extractVars, webVars, calls>>

\* main, line 129
ParentProcessing(d) ==
    /\ parent[d] = "processing"
    /\ ParentUpdate(d, "processing", "ocrSubmit")
    /\ UNCHANGED <<blobs, dataDir, child, extractVars, webVars, calls>>

\* Mutant: the operation is not awaited, the child is spawned at once.
OcrSubmitNoWait(d) ==
    /\ parent[d] = "ocrSubmit"
    /\ \E ok \in BOOLEAN :
        /\ parent' = [parent EXCEPT ![d] = IF ok THEN "spawn" ELSE "catch"]
        /\ Log(d, <<Event("ocrSubmit", "", ok)>>)
    /\ UNCHANGED <<records, blobs, dataDir, child, extractVars, webVars, calls>>

\* extractTextFromPDF, line 71: asyncBatchAnnotateFiles returns or throws.
OcrSubmit(d) ==
    /\ parent[d] = "ocrSubmit"
    /\ \E ok \in BOOLEAN :
        /\ parent' = [parent EXCEPT ![d] = IF ok THEN "ocrWait" ELSE "catch"]
        /\ Log(d, <<Event("ocrSubmit", "", ok)>>)
    /\ UNCHANGED <<records, blobs, dataDir, child, extractVars, webVars, calls>>

\* Mutant: a rejected operation is not noticed and the run goes on.
OcrWaitIgnoresRejection(d, Listings) ==
    /\ parent[d] = "ocrWait"
    /\ \/ /\ \E shards \in Listings : blobs' = [blobs EXCEPT ![d] = shards]
          /\ Log(d, <<Event("ocrWait", "", TRUE)>>)
       \/ /\ Log(d, <<Event("ocrWait", "", FALSE)>>)
          /\ UNCHANGED blobs
    /\ parent' = [parent EXCEPT ![d] = "spawn"]
    /\ UNCHANGED <<records, dataDir, child, extractVars, webVars, calls>>

\* extractTextFromPDF, line 74: operation.promise() resolves, the engine
\* having written its shards under the output prefix, or rejects.
OcrWait(d, Listings) ==
    /\ parent[d] = "ocrWait"
    /\ \/ /\ \E shards \in Listings : blobs' = [blobs EXCEPT ![d] = shards]
          /\ parent' = [parent EXCEPT ![d] = "spawn"]
          /\ Log(d, <<Event("ocrWait", "", TRUE)>>)
       \/ /\ parent' = [parent EXCEPT ![d] = "catch"]
          /\ Log(d, <<Event("ocrWait", "", FALSE)>>)
          /\ UNCHANGED blobs
    /\ UNCHANGED <<records, dataDir, child, extractVars, webVars, calls>>

\* runExtractKnowledge, line 91: the child process is spawned.
Spawn(d) ==
    /\ parent[d] = "spawn"
    /\ parent' = [parent EXCEPT ![d] = "waitChild"]
    /\ child' = [child EXCEPT ![d].pc = "extracting"]
    /\ UNCHANGED <<records, blobs, dataDir, hist, extractVars, webVars, calls>>

\* extractKnowledge, line 422
ChildExtracting(d) ==
    /\ child[d].pc = "extracting"
    /\ ChildUpdate(d, "extracting", Undefined, [child[d] EXCEPT !.pc = "list"])
    /\ UNCHANGED <<blobs, dataDir, parent, extractVars, webVars, calls>>

\* Lines 436-443: getFiles lists the prefix or throws.
ChildList(d) ==
    /\ child[d].pc = "list"
    /\ \E ok \in BOOLEAN :
        /\ child' = [child EXCEPT ![d] =
                        IF ok THEN [@ EXCEPT !.pc = "shards", !.files = blobs[d], !.i = 1]
                        ELSE [@ EXCEPT !.pc = "catch"]]
        /\ Log(d, <<Event("list", "", ok)>>)
    /\ UNCHANGED <<records, blobs, dataDir, parent, extractVars, webVars, calls>>

\* Mutant: a download that fails is logged and the loop goes on.
ChildShardSwallows(d) ==
    /\ child[d].pc = "shards"
    /\ child[d].i <= Len(child[d].files)
    /\ LET file == child[d].files[child[d].i]
       IN  IF ~EndsWith(file.name, Chars(".json"))
           THEN /\ child' = [child EXCEPT ![d].i = @ + 1]
                /\ Log(d, <<Event("skip", "", TRUE)>>)
           ELSE \E ok \in BOOLEAN :
                /\ child' = [child EXCEPT ![d] =
                       IF ok
                       THEN [@ EXCEPT !.i = @ + 1,
                                      !.combinedText = AppendShard(@, file.content)]
                       ELSE [@ EXCEPT !.i = @ + 1]]
                /\ Log(d, <<Event("download", "", ok)>>)
    /\ UNCHANGED <<records, blobs, dataDir, parent, extractVars, webVars, calls>>

\* Lines 445-471: one iteration of the loop over the listed files.
ChildShard(d) ==
    /\ child[d].pc = "shards"
    /\ child[d].i <= Len(child[d].files)
    /\ LET file == child[d].files[child[d].i]
       IN  IF ~EndsWith(file.name, Chars(".json"))
           THEN /\ child' = [child EXCEPT ![d].i = @ + 1]
                /\ Log(d, <<Event("skip", "", TRUE)>>)
           ELSE \E ok \in BOOLEAN :
                /\ child' = [child EXCEPT ![d] =
                       IF ok
                       THEN [@ EXCEPT !.i = @ + 1,
                                      !.combinedText = AppendShard(@, file.content)]
                       ELSE [@ EXCEPT !.pc = "catch"]]
                /\ Log(d, <<Event("download", "", ok)>>)
    /\ UNCHANGED <<records, blobs, dataDir, parent, extractVars, webVars, calls>>

\* Lines 474-479: after the loop, the output directory is made, or the
\* names in it are read (readdirSync).
ChildPrepareDir(d) ==
    /\ child[d].pc = "shards"
    /\ child[d].i > Len(child[d].files)
    /\ dataDir' = [dataDir EXCEPT !.exists = TRUE]
    /\ child' = [child EXCEPT ![d].pc = "unlink", ![d].toUnlink = dataDir.files]
    /\ UNCHANGED <<records, blobs, parent, hist, extractVars, webVars, calls>>

\* Lines 480-482: unlinkSync of one of the names read, in the order
\* readdirSync gave; it throws ENOENT when the file is no longer there.
ChildUnlink(d) ==
    /\ child[d].pc = "unlink"
    /\ \E f \in child[d].toUnlink :
        IF f \in dataDir.files
        THEN /\ dataDir' = [dataDir EXCEPT !.files = @ \ {f}]
             /\ child' = [child EXCEPT ![d].toUnlink = @ \ {f}]
             /\ Log(d, <<Event("unlink", "", TRUE)>>)
        ELSE /\ child' = [child EXCEPT ![d].pc = "catch"]
             /\ Log(d, <<Event("unlink", "", FALSE)>>)
             /\ UNCHANGED dataDir
    /\ UNCHANGED <<records, blobs, parent, extractVars, webVars, calls>>

\* Line 486: the assembled text is written to its file.
ChildWriteText(d) ==
    /\ child[d].pc = "unlink"
    /\ child[d].toUnlink = {}
    /\ dataDir' = [dataDir EXCEPT !.files = @ \cup {KnowledgeFile(d)}]
    /\ child' = [child EXCEPT ![d].pc = "extract"]
    /\ UNCHANGED <<records, blobs, parent, hist, extractVars, webVars, calls>>

\* A call made by the clause extractor: to the model, with the contract
\* text of the prompt, or to the keyword extractor, with its argument.
ModelCall(text) == [fn |-> "model", text |-> PromptText(text)]

KeywordCall(text) == [fn |-> "keywords", text |-> FallbackText(text)]

\* Mutant: the keyword extractor is consulted whatever the model answered.
KeywordsAlways(text, response) == <<KeywordCall(text)>>

\* The calls one run of extractClausesWithAI makes after the model call:
\* the keyword extractor's, in either catch block.
FallbackCalls(text, response) ==
    IF FallsBack(response) THEN <<KeywordCall(text)>> ELSE <<>>

\* The calls one run of extractClausesWithAI makes, in order.
ExtractCalls(text, response) == <<ModelCall(text)>> \o FallbackCalls(text, response)

\* What one call of extractClausesWithAI does, in order: the model call,
\* and the keyword extractor when it falls back.
ExtractEvents(response) ==
    <<Event("model", "", ~response.threw)>>
        \o (IF FallsBack(response) THEN <<Event("keywords", "", TRUE)>> ELSE <<>>)

\* Line 493
ChildExtractClauses(d, Responses) ==
    /\ child[d].pc = "extract"
    /\ \E response \in Responses :
        /\ child' = [child EXCEPT ![d].pc = "save",
                         ![d].clauses =
                             Obj(extractClausesWithAI(child[d].combinedText, response))]
        /\ Log(d, ExtractEvents(response))
        /\ calls' = calls \o ExtractCalls(child[d].combinedText, response)
    /\ UNCHANGED <<records, blobs, dataDir, parent, extractVars, webVars>>

\* fs.writeFileSync(path, data): a string is written.  For any other data
\* the runtime decides: Node 14 and later throw ERR_INVALID_ARG_TYPE
\* (strict), earlier versions write String(data).
WriteThrows(data, strict) == strict /\ ~IsString(data)

\* Lines 512-513: the two clause files, the first before the second.
ChildSaveClauses(d) ==
    /\ child[d].pc = "save"
    /\ \E strict \in BOOLEAN :
        LET first == WriteThrows(Get(child[d].clauses, "indemnificationText"), strict)
            second == WriteThrows(Get(child[d].clauses, "terminationText"), strict)
        IN  /\ dataDir' = [dataDir EXCEPT !.files =
                   @ \cup (IF first THEN {} ELSE {IndemnificationFile(d)})
                     \cup (IF first \/ second THEN {} ELSE {TerminationFile(d)})]
            /\ child' = [child EXCEPT ![d].pc =
                   IF first \/ second THEN "catch" ELSE "completed"]
            /\ Log(d, <<Event("save", "", ~(first \/ second))>>)
    /\ UNCHANGED <<records, blobs, parent, extractVars, webVars, calls>>

\* Line 520: the last statement of the try block; the process then ends
\* with exit code 0.
ChildCompleted(d) ==
    /\ child[d].pc = "completed"
    /\ ChildUpdate(d, "completed", child[d].clauses,
                   [child[d] EXCEPT !.pc = "exited", !.exitCode = 0])
    /\ UNCHANGED <<blobs, dataDir, parent, extractVars, webVars, calls>>

\* Lines 521-528: the catch block, ending in process.exit(1).
ChildCatch(d) ==
    /\ child[d].pc = "catch"
    /\ ChildUpdate(d, "failed", Undefined,
                   [child[d] EXCEPT !.pc = "exited", !.exitCode = 1])
    /\ UNCHANGED <<blobs, dataDir, parent, extractVars, webVars, calls>>

\* Mutant: the exit code test is inverted.
ParentCloseInverted(d) ==
    /\ parent[d] = "waitChild"
    /\ child[d].pc = "exited"
    /\ parent' = [parent EXCEPT ![d] = IF child[d].exitCode # 0 THEN "done" ELSE "catch"]
    /\ Log(d, <<Event("close", "", child[d].exitCode # 0)>>)
    /\ UNCHANGED <<records, blobs, dataDir, child, extractVars, webVars, calls>>

\* Mutant: the close handler settles the promise on code 0 only.
ParentCloseOnSuccessOnly(d) ==
    /\ parent[d] = "waitChild"
    /\ child[d].pc = "exited"
    /\ child[d].exitCode = 0
    /\ parent' = [parent EXCEPT ![d] = "done"]
    /\ Log(d, <<Event("close", "", TRUE)>>)
    /\ UNCHANGED <<records, blobs, dataDir, child, extractVars, webVars, calls>>

\* runExtractKnowledge, lines 104-113: the child's close event resolves the
\* promise on code 0 and rejects it otherwise.
ParentClose(d) ==
    /\ parent[d] = "waitChild"
    /\ child[d].pc = "exited"
    /\ parent' = [parent EXCEPT ![d] = IF child[d].exitCode = 0 THEN "done" ELSE "catch"]
    /\ Log(d, <<Event("close", "", child[d].exitCode = 0)>>)
    /\ UNCHANGED <<records, blobs, dataDir, child, extractVars, webVars, calls>>

\* main, lines 142-148
ParentCatch(d) ==
    /\ parent[d] = "catch"
    /\ ParentUpdate(d, "failed", "done")
    /\ UNCHANGED <<blobs, dataDir, child, extractVars, webVars, calls>>

\* One step of a run that has been started.
Run(d, Listings, Responses) ==
    \/ ParentProcessing(d)
    \/ OcrSubmit(d)
    \/ OcrWait(d, Listings)
    \/ Spawn(d)
    \/ ChildExtracting(d)
    \/ ChildList(d)
    \/ ChildShard(d)
    \/ ChildPrepareDir(d)
    \/ ChildUnlink(d)
    \/ ChildWriteText(d)
    \/ ChildExtractClauses(d, Responses)
    \/ ChildSaveClauses(d)
    \/ ChildCompleted(d)
    \/ ChildCatch(d)
    \/ ParentClose(d)
    \/ ParentCatch(d)

\* One step of document d's run, with the shard sets the OCR engine may
\* leave and the things the model call may do.
Step(d, Listings, Responses) ==
    \/ Start(d)
    \/ Run(d, Listings, Responses)

\* ------------------------------------------------------------------------
\* The processing service (server.ts) and the upload route (upload/route.ts)
\* ------------------------------------------------------------------------

\* What the service does with a request: its response, and the exec of
\* the processing script.
Responded(body, code) == [ev |-> "respond", body |-> body, code |-> code]

Exec(body) == [ev |-> "exec", body |-> body, code |-> 0]

\* What the upload route does for document id: the blob write, the record's
\* creation, the hand-off (code 0: fetch threw) and its own response.
UploadEvent(ev, id, code) == [ev |-> ev, id |-> id, code |-> code]

\* A request to the record store by one of its clients.
PutEvent(id, data, code) == [ev |-> "put", id |-> id, data |-> data, code |-> code]

\* Mutant: the script is started first and the request answered after it.
AckAfterExec(body) ==
    IF ~Truthy(Get(body, "id")) \/ ~Truthy(Get(body, "filename"))
    THEN [code |-> 400, exec |-> FALSE, events |-> <<Responded(body, 400)>>]
    ELSE [code |-> 200, exec |-> TRUE,
          events |-> <<Exec(body), Responded(body, 200)>>]

\* app.post('/process_document'), lines 18-69: the response's status code,
\* whether the script is started, and what the handler does in order.
process_document(body) ==
    IF ~Truthy(Get(body, "id")) \/ ~Truthy(Get(body, "filename"))
    THEN [code |-> 400, exec |-> FALSE, events |-> <<Responded(body, 400)>>]
    ELSE [code |-> 200, exec |-> TRUE,
          events |-> <<Responded(body, 200), Exec(body)>>]

\* The run the exec of line 48 starts, for a request that was accepted.
Started(body, reply) ==
    IF reply.exec
    THEN /\ Get(body, "id").v \in Docs
         /\ parent[Get(body, "id").v] = "idle"
         /\ parent' = [parent EXCEPT ![Get(body, "id").v] = "processing"]
    ELSE UNCHANGED parent

\* The most requests the clients other than the upload route send.
MaxRequests == 1

Requests(ev) == {i \in DOMAIN web : web[i].ev = ev}

\* A request to the service that does not come from the upload route.
ServiceRequest(body) ==
    /\ Cardinality({i \in Requests("respond") : web[i].code # 200}) < MaxRequests
    /\ LET reply == process_document(body)
       IN  /\ web' = web \o reply.events
           /\ Started(body, reply)
    /\ UNCHANGED <<records, blobs, dataDir, child, hist, upload, extractVars, calls>>

\* The most requests for a document whose run has ended.
MaxResubmits == 1

\* gs://<bucket>/input/<fileName>
GsUri(id) == Str(Chars("gs://fb_dioptra_process/input/") \o NatToString(id))

\* Lines 63-66: the body of the hand-off.
HandOffBody(id) == Obj([id |-> Num(id), filename |-> GsUri(id)])

\* A request to the service for a document whose earlier run has ended:
\* the handler answers and execs the script again (lines 34-48), a new
\* process that starts at main.
Resubmit(d) ==
    /\ parent[d] = "done"
    /\ Cardinality(Requests("exec")) < MaxResubmits
    /\ web' = web \o process_document(HandOffBody(d)).events
    /\ parent' = [parent EXCEPT ![d] = "processing"]
    /\ child' = [child EXCEPT ![d] = NoChild]
    /\ UNCHANGED <<records, blobs, dataDir, hist, upload, extractVars, calls>>

\* Lines 19-40: the form is read and the file saved to the blob store; no
\* file is a 400, a failed save a 500.
UploadSave(u) ==
    /\ upload[u] = "none"
    /\ \/ /\ upload' = [upload EXCEPT ![u] = "saved"]
          /\ web' = Append(web, UploadEvent("save", u, 200))
       \/ /\ upload' = [upload EXCEPT ![u] = "returned"]
          /\ web' = Append(web, UploadEvent("upload", u, 400))
       \/ /\ upload' = [upload EXCEPT ![u] = "returned"]
          /\ web' = web \o <<UploadEvent("save", u, 0), UploadEvent("upload", u, 500)>>
    /\ UNCHANGED <<pipeVars, extractVars, calls>>

\* Lines 49-54: prisma.contract.create, which may throw.
UploadCreate(u) ==
    /\ upload[u] = "saved"
    /\ \/ /\ records' = (u :> NewRecord(u)) @@ records
          /\ upload' = [upload EXCEPT ![u] = "created"]
          /\ web' = Append(web, UploadEvent("create", u, 200))
       \/ /\ upload' = [upload EXCEPT ![u] = "returned"]
          /\ web' = web \o <<UploadEvent("create", u, 0), UploadEvent("upload", u, 500)>>
          /\ UNCHANGED records
    /\ UNCHANGED <<blobs, dataDir, parent, child, hist, extractVars, calls>>

\* Mutant: a hand-off that fails fails the upload.
UploadHandOffStrict(u) ==
    /\ upload[u] = "created"
    /\ \/ /\ web' = web \o <<UploadEvent("handoff", u, 0), UploadEvent("upload", u, 500)>>
          /\ upload' = [upload EXCEPT ![u] = "returned"]
          /\ UNCHANGED parent
       \/ LET reply == process_document(HandOffBody(u))
          IN  /\ web' = web \o reply.events \o <<UploadEvent("handoff", u, reply.code)>>
              /\ Started(HandOffBody(u), reply)
              /\ upload' = [upload EXCEPT ![u] = "handed"]
    /\ UNCHANGED <<records, blobs, dataDir, child, hist, extractVars, calls>>

\* Lines 57-75: the fetch throws (the service is not reached), is answered
\* with an error by something on the way, or reaches the service's handler;
\* the route goes on in each case.
UploadHandOff(u) ==
    /\ upload[u] = "created"
    /\ \/ /\ \E code \in {0, 503} : web' = Append(web, UploadEvent("handoff", u, code))
          /\ UNCHANGED parent
       \/ LET reply == process_document(HandOffBody(u))
          IN  /\ web' = web \o reply.events \o <<UploadEvent("handoff", u, reply.code)>>
              /\ Started(HandOffBody(u), reply)
    /\ upload' = [upload EXCEPT ![u] = "handed"]
    /\ UNCHANGED <<records, blobs, dataDir, child, hist, extractVars, calls>>

\* Lines 78-85
UploadReturn(u) ==
    /\ upload[u] = "handed"
    /\ upload' = [upload EXCEPT ![u] = "returned"]
    /\ web' = Append(web, UploadEvent("upload", u, 200))
    /\ UNCHANGED <<pipeVars, extractVars, calls>>

\* The most requests the record store's clients send.
MaxPuts == 2

\* A PUT /api/contracts/<id> by any client of the record store.
StoreRequest(id, data) ==
    /\ Cardinality(Requests("put")) < MaxPuts
    /\ LET reply == PUT(records, id, data)
       IN  /\ records' = reply.store
           /\ web' = Append(web, PutEvent(id, data, reply.code))
    /\ UNCHANGED <<blobs, dataDir, parent, child, hist, upload, extractVars, calls>>

\* ------------------------------------------------------------------------
\* Inputs
\* ------------------------------------------------------------------------

\* The sequences of at most n elements of S.
SeqsUpTo(S, n) == UNION {[1..k -> S] : k \in 0..n}

\* What the OCR engine may leave under a prefix.
PipelineFiles ==
    { File("output-1-to-1.json", JsonContent(ShardIndemnify)),
      File("output-2-to-2.json", JsonContent(ShardTerminate)),
      File("output-3-to-3.json", JsonContent(ShardNullResponse)),
      File("output-4-to-4.json", CorruptContent),
      File("operation.log", CorruptContent) }

Listings == SeqsUpTo(PipelineFiles, MaxFiles)

ModelThrows == [threw |-> TRUE]

ModelReturns(content) == [threw |-> FALSE, content |-> content]

\* What the model call may do in a pipeline run.
PipelineResponses ==
    { ModelThrows,
      ModelReturns(Str(Chars("I found no clauses."))),
      ModelReturns(Str(Chars("Here you are: ") \o JBoth)),
      ModelReturns(Str(JOnlyTermination)),
      ModelReturns(Str(JNumberField)),
      ModelReturns(Str(JObjectField)) }

\* What the model call may do, for the extractor on its own.
ExtractResponses ==
    PipelineResponses
    \cup { ModelReturns(Null),
           ModelReturns(Str(<<>>)),
           ModelReturns(Str(Chars("{indemnificationText: none}"))),
           ModelReturns(Str(JObjects)),
           ModelReturns(Str(Chars("json\n") \o JBoth \o Chars("\nI hope this helps."))) }
    \cup { ModelReturns(Str(j)) :
             j \in {JNull, JNumber, JString, JArray, JEmptyObject, JBoth,
                    JOnlyIndemnification, JEmptyField, JNullFields} }

\* The most paragraphs of a text handed to the extractor on its own.
MaxParagraphs == 2

ParagraphLexicon ==
    { <<>>,
      Chars(" \n"),
      Chars("Hello World"),
      Chars("The vendor shall indemnify the client for any data breach."),
      Chars("This Agreement may be terminated for convenience by either party."),
      Chars("Either party may TERMINATE this Agreement at will; LIABILITY is capped."),
      Chars("Terminated."),
      Chars("At will.") }

RECURSIVE JoinParagraphs(_)
JoinParagraphs(ps) ==
    IF ps = <<>> THEN <<>>
    ELSE IF Len(ps) = 1 THEN ps[1]
    ELSE ps[1] \o NL2 \o JoinParagraphs(Tail(ps))

\* A text longer than the prompt's budget whose only clause lies beyond it.
LongText ==
    [i \in 1..PromptChars |-> "x"] \o NL2 \o Chars("The vendor shall indemnify the client.")

ExtractTexts ==
    {JoinParagraphs(ps) : ps \in SeqsUpTo(ParagraphLexicon, MaxParagraphs)}
        \cup {LongText}

\* ------------------------------------------------------------------------
\* Specifications
\* ------------------------------------------------------------------------

ExtractOff ==
    /\ xPhase = "off"
    /\ xText = <<>>
    /\ xResponse = ModelThrows
    /\ xResult = Undefined

\* One run: the first document's.
SoloDocs == {1}

\* No upload in progress: the documents' records exist and their files are
\* stored.
WebOff ==
    /\ upload = [d \in Docs |-> "returned"]
    /\ web = <<>>

Init == PipeInit /\ ExtractOff /\ WebOff

Next == \E d \in SoloDocs : Step(d, Listings, PipelineResponses)

Spec == Init /\ [][Next]_vars

\* The same run under fairness: its steps are taken as long as one is
\* possible (the processes run, and each external call returns or throws).
\* The engine leaves no shard, one, or a corrupt one and a good one; the
\* model answers with both clauses, or with a number for one of them.
LiveListings ==
    { <<>>,
      <<File("output-1-to-1.json", JsonContent(ShardIndemnify))>>,
      <<File("output-4-to-4.json", CorruptContent),
        File("output-1-to-1.json", JsonContent(ShardIndemnify))>> }

LiveResponses == {ModelReturns(Str(JBoth)), ModelReturns(Str(JNumberField))}

NextLive == \E d \in SoloDocs : Step(d, LiveListings, LiveResponses)

LiveSpec == Init /\ [][NextLive]_vars /\ WF_vars(NextLive)

\* The clause extractor on its own: extractClausesWithAI(xText).
NoResponse == [threw |-> FALSE, content |-> Undefined]

XInit ==
    /\ PipeInit
    /\ ~dataDir.exists
    /\ xPhase = "start"
    /\ xText \in ExtractTexts
    /\ xResponse = NoResponse
    /\ xResult = Undefined
    /\ WebOff

\* Line 292: the model call returns or throws.
XCallModel ==
    /\ xPhase = "start"
    /\ xPhase' = "called"
    /\ xResponse' \in ExtractResponses
    /\ calls' = Append(calls, ModelCall(xText))
    /\ UNCHANGED <<xText, xResult, pipeVars, webVars>>

\* Lines 304-343: the rest of the function, to its return.
XReturn ==
    /\ xPhase = "called"
    /\ xPhase' = "returned"
    /\ xResult' = Obj(extractClausesWithAI(xText, xResponse))
    /\ calls' = calls \o FallbackCalls(xText, xResponse)
    /\ UNCHANGED <<xText, xResponse, pipeVars, webVars>>

XNext == XCallModel \/ XReturn

SpecExtract == XInit /\ [][XNext]_vars

\* Concurrent runs, one per document, each given the same shard and the
\* same answer of the model.
ConcListings == {<<File("output-1-to-1.json", JsonContent(ShardIndemnify))>>}

ConcResponses == {ModelReturns(Str(JBoth))}

NextConc == \E d \in Docs : Step(d, ConcListings, ConcResponses)

SpecConc == Init /\ [][NextConc]_vars

\* The same run, alone.
NextAlone == \E d \in SoloDocs : Step(d, ConcListings, ConcResponses)

SpecAlone == Init /\ [][NextAlone]_vars

\* Reassembly: shards with a flattened text, with pages only, without
\* text, and malformed ones, and a model that answers with clauses, with no
\* field, with prose, or not at all.
AssemblyFiles ==
    { File("output-1-to-1.json", JsonContent(ShardHello)),
      File("output-2-to-2.json", JsonContent(ShardWalk)),
      File("output-3-to-3.json", JsonContent(ShardEmpty)),
      File("output-4-to-4.json", JsonContent(ShardNull)),
      File("output-5-to-5.json", JsonContent(ShardBlank)),
      File("output-6-to-6.json", CorruptContent),
      File("operation.log", CorruptContent) }

AssemblyListings == SeqsUpTo(AssemblyFiles, MaxFiles)

AssemblyResponses ==
    { ModelThrows,
      ModelReturns(Str(Chars("I found no clauses."))),
      ModelReturns(Str(JEmptyObject)),
      ModelReturns(Str(JBoth)) }

NextAssemble == \E d \in SoloDocs : Step(d, AssemblyListings, AssemblyResponses)

SpecAssemble == Init /\ [][NextAssemble]_vars

\* Uploads and the service: nothing has been uploaded yet; the first
\* document is uploaded and processed while other clients send the service
\* requests it rejects.
WebInit ==
    /\ records = <<>>
    /\ blobs = [d \in Docs |-> <<>>]
    /\ dataDir \in {[exists |-> FALSE, files |-> {}],
                    [exists |-> TRUE, files |-> {}],
                    [exists |-> TRUE, files |-> {Leftover}]}
    /\ parent = [d \in Docs |-> "idle"]
    /\ child = [d \in Docs |-> NoChild]
    /\ hist = [d \in Docs |-> <<>>]
    /\ upload = [d \in Docs |-> "none"]
    /\ web = <<>>
    /\ calls = <<>>
    /\ ExtractOff

RejectedBodies ==
    { Obj(<<>>),
      Obj([id |-> Num(1)]),
      Obj([filename |-> GsUri(1)]),
      Obj([id |-> Str(<<>>), filename |-> GsUri(1)]),
      Obj([id |-> Num(1), filename |-> Null]) }

NextWeb ==
    \/ \E u \in SoloDocs : UploadSave(u)
    \/ \E u \in SoloDocs : UploadCreate(u)
    \/ \E u \in SoloDocs : UploadHandOff(u)
    \/ \E u \in SoloDocs : UploadReturn(u)
    \/ \E body \in RejectedBodies : ServiceRequest(body)
    \/ \E d \in SoloDocs : Run(d, ConcListings, ConcResponses)

SpecWeb == WebInit /\ [][NextWeb]_vars

\* The record store and its clients: requests for the ids that are there
\* and for one that is not.
AbsentId == NumDocs + 1

PutBodies ==
    { <<>>,
      [status |-> ""],
      [indemnificationText |-> VendorIndemnifies],
      [status |-> "processing"],
      [status |-> "failed", indemnificationText |-> Str(<<>>)],
      [status |-> "completed", indemnificationText |-> VendorIndemnifies,
       terminationText |-> TerminateAtWill],
      [status |-> "done"],
      [status |-> "extracting", progress |-> Num(50), fileName |-> Str(Chars("other.pdf")),
       uploadedAt |-> Str(Chars("later")), id |-> Num(2)],
      [status |-> "completed", indemnificationText |-> Num(42),
       terminationText |-> TerminateAtWill] }

NextStore == \E id \in Docs \cup {AbsentId} : \E data \in PutBodies : StoreRequest(id, data)

SpecStore == Init /\ [][NextStore]_vars

\* A document's run, and requests for it again after the run has ended.
NextResubmit ==
    \/ \E d \in SoloDocs : Step(d, ConcListings, ConcResponses)
    \/ \E d \in SoloDocs : Resubmit(d)

SpecResubmit == Init /\ [][NextResubmit]_vars

\* The structural walk: shards with and without the flattened text, with
\* one and several pages, paragraphs and responses.
WalkFiles ==
    { File("output-1-to-1.json", JsonContent(ShardWalk)),
      File("output-2-to-2.json", JsonContent(ShardHello)),
      File("output-3-to-4.json", JsonContent(ShardTwoPages)),
      File("output-5-to-5.json", JsonContent(ShardTwoParagraphs)),
      File("output-6-to-7.json", JsonContent(ShardLaterPages)),
      File("output-8-to-8.json", JsonContent(ShardPagesSecond)),
      File("output-9-to-9.json", JsonContent(ShardMixed)),
      File("output-10-to-10.json", JsonContent(ShardBoth)) }

WalkListings == SeqsUpTo(WalkFiles, MaxFiles)

NextWalk == \E d \in SoloDocs : Step(d, WalkListings, ConcResponses)

SpecWalk == Init /\ [][NextWalk]_vars

\* ------------------------------------------------------------------------
\* Properties
\* ------------------------------------------------------------------------

Terminal == {"completed", "failed"}

Events(d) == {hist[d][i] : i \in DOMAIN hist[d]}

\* The run has issued an update to this status, and the store applied it.
Persisted(d, status) == Event("update", status, TRUE) \in Events(d)

\* No status update of the run was lost so far.
NoUpdateLost(h) == \A i \in DOMAIN h : h[i].ev = "update" => h[i].ok

OcrThrew(d) ==
    \E e \in Events(d) : e.ev \in {"ocrSubmit", "ocrWait"} /\ ~e.ok

\* The extraction stage was never started.
NoExtraction(d) ==
    /\ child[d].pc = "none"
    /\ \A e \in Events(d) :
        /\ ~(e.ev = "update" /\ e.arg = "extracting")
        /\ e.ev \notin {"list", "skip", "download", "model", "keywords"}

BothUnset(d) ==
    /\ records[d].indemnificationText = Null
    /\ records[d].terminationText = Null

NonEmptyString(x) == IsString(x) /\ x.v # <<>>

BothSet(d) ==
    /\ NonEmptyString(records[d].indemnificationText)
    /\ NonEmptyString(records[d].terminationText)

\* C1: once a record's status is completed or failed, no step of its run
\* changes it.
C1_TerminalIsFinal ==
    [][\A d \in Docs :
          records[d].status \in Terminal => records'[d].status = records[d].status]_vars

\* C1 witness: the child's failed update was applied, and then the parent,
\* handling the child's exit code, issued its own.
C1_Witness ==
    /\ parent[1] = "done"
    /\ \E i, j \in DOMAIN hist[1] :
        /\ i < j
        /\ hist[1][i] = Event("update", "failed", TRUE)
        /\ hist[1][j] = Event("update", "failed", TRUE)

\* C2 as stated: a run in which OCR threw leaves the record failed, with
\* both clause fields unset, and never started extraction.
C2_Original ==
    \A d \in Docs :
        parent[d] = "done" /\ OcrThrew(d) =>
            /\ records[d].status = "failed"
            /\ BothUnset(d)
            /\ NoExtraction(d)

\* C2 amended: such a run leaves the record failed when its failed update
\* was applied, and otherwise in the status it had (processing, or pending
\* when that update was lost too); in every case both clause fields are unset
\* and extraction was never started.
C2_OcrFailure ==
    \A d \in Docs :
        parent[d] = "done" /\ OcrThrew(d) =>
            /\ records[d].status =
                  IF Persisted(d, "failed") THEN "failed"
                  ELSE IF Persisted(d, "processing") THEN "processing"
                  ELSE "pending"
            /\ BothUnset(d)
            /\ NoExtraction(d)

\* C2 witness: OCR completion threw and the record was left failed.
C2_Witness ==
    /\ parent[1] = "done"
    /\ Event("ocrWait", "", FALSE) \in Events(1)
    /\ records[1].status = "failed"

TableEdges ==
    { <<"pending", "processing">>, <<"processing", "extracting">>,
      <<"processing", "failed">>, <<"extracting", "completed">>,
      <<"extracting", "failed">> }

Rank(status) ==
    CASE status = "pending" -> 0
      [] status = "processing" -> 1
      [] status = "extracting" -> 2
      [] OTHER -> 3

\* C4 as stated: every change of the status follows an edge of the table.
C4_Original ==
    [][\A d \in Docs :
          records'[d].status # records[d].status =>
              <<records[d].status, records'[d].status>> \in TableEdges]_vars

\* C4 amended: every change of the status moves it forward in the order
\* pending, processing, extracting, {completed, failed}, and follows an edge
\* of the table as long as no status update of the run has been lost; after a
\* lost update the next one applied skips the lost state.
C4_ForwardOnly ==
    [][\A d \in Docs :
          records'[d].status # records[d].status =>
              /\ Rank(records[d].status) < Rank(records'[d].status)
              /\ NoUpdateLost(hist'[d]) =>
                    <<records[d].status, records'[d].status>> \in TableEdges]_vars

\* C4 witness: the extracting update was lost and the record went from
\* processing to completed.
C4_Witness ==
    /\ records[1].status = "completed"
    /\ Event("update", "processing", TRUE) \in Events(1)
    /\ Event("update", "extracting", FALSE) \in Events(1)

\* C5: a record has its indemnification text set exactly when it has its
\* termination text set.
C5_NeverPartial ==
    \A d \in Docs :
        (records[d].indemnificationText = Null) <=> (records[d].terminationText = Null)

\* C5 witness: the model gave one clause only, and the record holds it
\* beside the other's sentinel.
C5_Witness ==
    /\ records[1].indemnificationText = Str(NoIndemnification)
    /\ records[1].terminationText = TerminateAtWill

\* C6 as stated: the extractor returns two non-empty strings whatever the
\* model call did.
C6_Original ==
    xPhase = "returned" =>
        /\ NonEmptyString(Get(xResult, "indemnificationText"))
        /\ NonEmptyString(Get(xResult, "terminationText"))

\* The response cannot be parsed by either strategy: it is empty, or
\* neither the matched substring nor the whole response is JSON.
Unparseable(response) ==
    \/ ~Truthy(response.content)
    \/ /\ ~(JsonMatch(response.content.v).found
            /\ JSONParse(JsonMatch(response.content.v).text).ok)
       /\ ~JSONParse(response.content.v).ok

\* C7: when the model call failed or its response cannot be parsed, the
\* extractor returns what the keyword extractor returns for the whole text.
C7_FullFallback ==
    xPhase = "returned" /\ (xResponse.threw \/ Unparseable(xResponse)) =>
        xResult = Obj(extractClausesWithKeywords(xText))

\* C7 witness: an unparseable answer for the long text, and the clause that
\* lies beyond the prompt's prefix returned.
C7_Witness ==
    /\ xPhase = "returned"
    /\ xText = LongText
    /\ ~xResponse.threw
    /\ Unparseable(xResponse)
    /\ Get(xResult, "indemnificationText") = Str(Chars("The vendor shall indemnify the client."))

\* The last status update the run issued was applied.
LastUpdateApplied(d) ==
    \E i \in DOMAIN hist[d] :
        /\ hist[d][i].ev = "update"
        /\ hist[d][i].ok
        /\ \A j \in DOMAIN hist[d] : j > i => hist[d][j].ev # "update"

\* C8 as stated: a run that has ended has left its record completed or
\* failed.
C8_Original ==
    \A d \in Docs : parent[d] = "done" => records[d].status \in Terminal

\* C8 amended: every run that has started ends, and when it has ended its
\* record is completed or failed provided the last status update it issued
\* was applied by the record store.
C8_EndsAndReports ==
    /\ \A d \in SoloDocs : (parent[d] # "idle") ~> (parent[d] = "done")
    /\ [](\A d \in Docs :
            parent[d] = "done" /\ LastUpdateApplied(d) => records[d].status \in Terminal)

\* C8 witness: a run that ended after its child had failed, its last update
\* applied.
C8_Witness ==
    /\ parent[1] = "done"
    /\ child[1].exitCode = 1
    /\ LastUpdateApplied(1)
    /\ records[1].status = "failed"

\* No call the run made to the record store, the OCR engine, the blob store
\* or the model failed.
NoExternalFailure(d) ==
    \A e \in Events(d) :
        e.ev \in {"update", "ocrSubmit", "ocrWait", "list", "download", "model"} => e.ok

\* C9 as stated: a run ends as it would have ended alone; with every
\* external call succeeding, that is completed with the model's two clauses.
C9_Original ==
    \A d \in Docs :
        parent[d] = "done" /\ NoExternalFailure(d) =>
            /\ records[d].status = "completed"
            /\ records[d].indemnificationText = VendorIndemnifies
            /\ records[d].terminationText = TerminateAtWill

\* The shard the loop is at, when it is at one.
AtShard(d) ==
    /\ child[d].pc = "shards"
    /\ child[d].i <= Len(child[d].files)

CurrentFile(d) == child[d].files[child[d].i]

\* JSON.parse of the shard throws, or the text extraction's try block does.
BadShard(file) ==
    /\ EndsWith(file.name, Chars(".json"))
    /\ \/ file.content.corrupt
       \/ OcrTry(file.content.json).thrown

\* C10 as stated: a downloaded shard that does not parse, or whose text
\* extraction throws, adds nothing to the assembled text, and the loop goes on
\* to the next file.
C10_Original ==
    [][\A d \in Docs :
          /\ AtShard(d)
          /\ BadShard(CurrentFile(d))
          /\ child'[d] # child[d]
          /\ child'[d].pc # "catch"
          =>
              /\ child'[d].combinedText = child[d].combinedText
              /\ child'[d].pc = "shards"
              /\ child'[d].i = child[d].i + 1]_vars

\* The run got as far as handing the assembled text to the extractor.
Extracted(d) == \E e \in Events(d) : e.ev = "model"

\* C11 as stated: a run whose assembled text is empty, and none of whose
\* calls to the stores, the OCR engine and the model failed, ends with
\* the record completed and both clause fields equal to their sentinels.
C11_Original ==
    \A d \in Docs :
        /\ parent[d] = "done"
        /\ Extracted(d)
        /\ child[d].combinedText = <<>>
        /\ NoExternalFailure(d)
        => /\ records[d].status = "completed"
           /\ records[d].indemnificationText = Str(NoIndemnification)
           /\ records[d].terminationText = Str(NoTermination)

\* The texts of the shards among the listed files, in the order listed:
\* the files named *.json that parse and yield a text.
RECURSIVE ShardTexts(_)
ShardTexts(files) ==
    IF files = <<>> THEN <<>>
    ELSE LET file == Head(files)
             text == IF EndsWith(file.name, Chars(".json")) /\ ~file.content.corrupt
                     THEN extractTextFromOcrJson(file.content.json)
                     ELSE <<>>
         IN  (IF text = <<>> THEN <<>> ELSE <<text>>) \o ShardTexts(Tail(files))

\* C12 as stated: the text handed to the extractor is the shards' texts in
\* listing order with a blank line between consecutive ones, and has no
\* white space at either end.
C12_Original ==
    \A d \in Docs :
        child[d].pc = "extract" =>
            /\ child[d].combinedText = JoinParagraphs(ShardTexts(child[d].files))
            /\ child[d].combinedText = Trim(child[d].combinedText)

\* The paragraph contains the term, in any case of its letters.
HasTerm(paragraph, term) == Includes(ToLowerCase(paragraph), Chars(term))

MatchesIndemnification(paragraph) ==
    \E term \in {"indemnif", "liability", "data breach", "security breach"} :
        HasTerm(paragraph, term)

MatchesTermination(paragraph) ==
    /\ HasTerm(paragraph, "terminat")
    /\ HasTerm(paragraph, "convenience") \/ HasTerm(paragraph, "at will")

\* The keyword extractor has run on xText and its result was returned.
KeywordsReturned == xPhase = "returned" /\ FallsBack(xResponse)

\* A field of the result: the chosen paragraphs, blank-line separated and
\* trimmed, or the sentinel when none was chosen.
FieldOf(chosen, sentinel) ==
    IF chosen = <<>> THEN Str(sentinel) ELSE Str(Trim(JoinParagraphs(chosen)))

\* C13: the paragraphs are the pieces of the text between its blank-line
\* boundaries; the indemnification field is made of exactly the paragraphs
\* that contain one of the four indemnification terms and the termination
\* field of exactly those that contain the stem and one of its qualifiers,
\* each in input order and blank-line separated (trimmed at both ends), and
\* the two choices are made independently.
C13_KeywordBuffers ==
    KeywordsReturned =>
        LET paragraphs == SplitBlankLines(xText)
        IN  /\ JoinParagraphs(paragraphs) = xText
            /\ \A i \in DOMAIN paragraphs : BlankLineStarts(paragraphs[i]) = {}
            /\ Get(xResult, "indemnificationText") =
                   FieldOf(SelectSeq(paragraphs, MatchesIndemnification), NoIndemnification)
            /\ Get(xResult, "terminationText") =
                   FieldOf(SelectSeq(paragraphs, MatchesTermination), NoTermination)

\* C13 witness: a paragraph with the stem alone, then one that passes both
\* tests: the second is the whole of both fields.
C13_Witness ==
    /\ KeywordsReturned
    /\ xText = Chars("Terminated.") \o NL2
                 \o Chars("Either party may TERMINATE this Agreement at will; LIABILITY is capped.")
    /\ Get(xResult, "indemnificationText") =
           Str(Chars("Either party may TERMINATE this Agreement at will; LIABILITY is capped."))
    /\ Get(xResult, "terminationText") = Get(xResult, "indemnificationText")

\* C14: the keyword extractor returns no empty string in either field, a
\* field with no matching paragraph is its own sentinel, and the two
\* sentinels differ.
C14_NeverEmpty ==
    KeywordsReturned =>
        /\ NonEmptyString(Get(xResult, "indemnificationText"))
        /\ NonEmptyString(Get(xResult, "terminationText"))
        /\ (\A p \in {SplitBlankLines(xText)[i] : i \in DOMAIN SplitBlankLines(xText)} :
                ~MatchesIndemnification(p))
            => Get(xResult, "indemnificationText") = Str(NoIndemnification)
        /\ (\A p \in {SplitBlankLines(xText)[i] : i \in DOMAIN SplitBlankLines(xText)} :
                ~MatchesTermination(p))
            => Get(xResult, "terminationText") = Str(NoTermination)
        /\ NoIndemnification # NoTermination

\* C14 witness: a text of white space and blank lines only, and both
\* sentinels returned.
C14_Witness ==
    /\ KeywordsReturned
    /\ xText = Chars(" \n") \o NL2 \o Chars(" \n")
    /\ xResult = Obj([indemnificationText |-> Str(NoIndemnification),
                      terminationText |-> Str(NoTermination)])

\* The events a step has added to the exchanges.
Added == SubSeq(web', Len(web) + 1, Len(web'))

\* The request carries an id and a filename.
Complete(body) == Truthy(Get(body, "id")) /\ Truthy(Get(body, "filename"))

\* C15: the service answers a request that carries id and filename with a
\* 200 and starts the script right after, the run having done nothing yet
\* when the answer is sent, and no run is ever under way without that answer
\* before it; it answers a request that lacks one of them with a 400, starts
\* nothing and changes no record; an answer once given stays as it was.
C15_AckThenRun ==
    /\ [](\A i \in DOMAIN web :
            /\ web[i].ev = "respond" =>
                  /\ web[i].code = (IF Complete(web[i].body) THEN 200 ELSE 400)
                  /\ web[i].code = 200 => i < Len(web) /\ web[i + 1] = Exec(web[i].body)
            /\ web[i].ev = "exec" =>
                  i > 1 /\ web[i - 1] = Responded(web[i].body, 200))
    /\ [](\A d \in Docs :
            parent[d] # "idle" => \E i \in Requests("exec") : Get(web[i].body, "id") = Num(d))
    /\ [][/\ SubSeq(web', 1, Len(web)) = web
           /\ \A i \in DOMAIN Added :
                 /\ Added[i].ev = "respond" /\ Added[i].code = 200 =>
                       /\ hist[Get(Added[i].body, "id").v] = <<>>
                       /\ parent[Get(Added[i].body, "id").v] = "idle"
                       /\ parent'[Get(Added[i].body, "id").v] = "processing"
                 /\ Added[i].ev = "respond" /\ Added[i].code # 200 =>
                       UNCHANGED <<records, parent, child, hist, blobs, dataDir>>]_vars

\* C15 witness: a request was acknowledged, the run it started has failed
\* and ended, and a request without a filename was rejected meanwhile.
C15_Witness ==
    /\ parent[1] = "done"
    /\ records[1].status = "failed"
    /\ \E i, j \in Requests("respond") :
          /\ i < j
          /\ web[i] = Responded(HandOffBody(1), 200)
          /\ web[j] = Responded(Obj([id |-> Num(1)]), 400)

\* The positions of the upload route's events of a kind for a document.
UploadEvents(ev, id) == {i \in Requests(ev) : web[i].id = id}

WellFormed(data) ==
    /\ "status" \in DOMAIN data
    /\ data.status \in ContractStatus
    /\ \A f \in DOMAIN data \cap {"indemnificationText", "terminationText"} :
          IsString(data[f])

\* C17: an update for an id that is not in the store is answered 404 and
\* creates or changes no record (a request the operation is not defined for
\* is answered 400 or 500 and changes nothing either), and a request without
\* a status is answered 400 and leaves the record as it was.
C17_NotFoundAndNoStatus ==
    [][\A i \in DOMAIN Added :
          Added[i].ev = "put" =>
              /\ Added[i].id \notin DOMAIN records =>
                    /\ records' = records
                    /\ Added[i].code = (IF WellFormed(Added[i].data) THEN 404
                                        ELSE IF "status" \in DOMAIN Added[i].data
                                                /\ Added[i].data.status # ""
                                        THEN 500 ELSE 400)
              /\ ("status" \notin DOMAIN Added[i].data \/ Added[i].data.status = "") =>
                    /\ records' = records
                    /\ Added[i].code = 400]_vars

\* C17 witness: a well-formed update for the absent id was answered 404,
\* and an update without a status for a record that is there was answered
\* 400, and the store is as it was at the start.
C17_Witness ==
    /\ \E i \in Requests("put") :
          web[i] = PutEvent(AbsentId, [status |-> "processing"], 404)
    /\ \E i \in Requests("put") :
          web[i] = PutEvent(1, [indemnificationText |-> VendorIndemnifies], 400)
    /\ records = [d \in Docs |-> NewRecord(d)]

\* The positions in the run's history of the events of a kind, of the
\* updates to a status, and those among some positions that succeeded.
Idx(d, ev) == {i \in DOMAIN hist[d] : hist[d][i].ev = ev}

UpdIdx(d, status) == {i \in Idx(d, "update") : hist[d][i].arg = status}

Ok(d, I) == {i \in I : hist[d][i].ok}

\* C18 as stated: a run issues at most one update to completed or failed,
\* and no update after it.
C18_Original ==
    \A d \in Docs :
        /\ Cardinality(UpdIdx(d, "completed") \cup UpdIdx(d, "failed")) <= 1
        /\ \A i \in UpdIdx(d, "completed") \cup UpdIdx(d, "failed") :
              \A j \in Idx(d, "update") : j <= i

\* Where the run stands after an update to the status, whether or not the
\* update was applied.
AfterUpdate(d, status) ==
    CASE status = "processing" -> <<"ocrSubmit", child[d]>>
      [] status = "extracting" -> <<parent[d], [child[d] EXCEPT !.pc = "list"]>>
      [] status = "completed" ->
            <<parent[d], [child[d] EXCEPT !.pc = "exited", !.exitCode = 0]>>
      [] status = "failed" ->
            IF parent[d] = "catch" THEN <<"done", child[d]>>
            ELSE <<parent[d], [child[d] EXCEPT !.pc = "exited", !.exitCode = 1]>>

\* C19: a step that issues a status update makes one attempt, and leaves
\* the run where it would be had the update been applied: the position after
\* it, the locals, the blob store and the data directory do not depend on
\* the outcome, and nothing of the run is undone; the steps that issue no
\* update leave the record store alone.
C19_FireAndForget ==
    [][\A d \in Docs :
          /\ hist'[d] # hist[d] /\ hist'[d][Len(hist'[d])].ev = "update" =>
                /\ Len(hist'[d]) = Len(hist[d]) + 1
                /\ SubSeq(hist'[d], 1, Len(hist[d])) = hist[d]
                /\ <<parent'[d], child'[d]>> =
                       AfterUpdate(d, hist'[d][Len(hist'[d])].arg)
                /\ UNCHANGED <<blobs, dataDir>>
          /\ Idx(d, "update")' = Idx(d, "update") =>
                (records' = records \/ hist'[d] = hist[d])]_vars

\* C19 witness: a run whose processing and extracting updates were both
\* lost, and which went on to read a shard, call the model and issue the
\* completed update.
C19_Witness ==
    /\ Ok(1, UpdIdx(1, "processing")) = {}
    /\ Ok(1, UpdIdx(1, "extracting")) = {}
    /\ Ok(1, Idx(1, "download")) # {}
    /\ Idx(1, "model") # {}
    /\ Ok(1, UpdIdx(1, "completed")) # {}
    /\ records[1].status = "completed"

\* Every event at a position of J comes after one at a position of I.
After(I, J) == \A j \in J : \E i \in I : i < j

\* C20: in a run's history the processing update comes before the OCR
\* submission, the wait for the OCR operation after a submission that
\* succeeded, the extracting update after a wait that succeeded, the listing
\* after the extracting update, every shard after the listing, the model
\* call after every listed file was read or skipped, the completed update
\* after the model call and the clause files, and nothing of the stages
\* after the completed update; each of the stages happens at most once.
C20_StagesInOrder ==
    \A d \in Docs :
        /\ After(UpdIdx(d, "processing"), Idx(d, "ocrSubmit"))
        /\ After(Ok(d, Idx(d, "ocrSubmit")), Idx(d, "ocrWait"))
        /\ After(Ok(d, Idx(d, "ocrWait")), UpdIdx(d, "extracting"))
        /\ After(UpdIdx(d, "extracting"), Idx(d, "list"))
        /\ After(Ok(d, Idx(d, "list")), Idx(d, "download") \cup Idx(d, "skip"))
        /\ \A m \in Idx(d, "model") :
              /\ Cardinality({i \in Ok(d, Idx(d, "download") \cup Idx(d, "skip")) : i < m})
                     = Len(blobs[d])
              /\ \A i \in Idx(d, "download") \cup Idx(d, "skip") : i < m
        /\ After(Idx(d, "model"), Idx(d, "save"))
        /\ After(Ok(d, Idx(d, "save")), UpdIdx(d, "completed"))
        /\ \A c \in UpdIdx(d, "completed") :
              \A j \in DOMAIN hist[d] : j > c => hist[d][j].ev = "close"
        /\ \A ev \in {"ocrSubmit", "ocrWait", "list", "model", "save"} :
              Cardinality(Idx(d, ev)) <= 1
        /\ \A status \in {"processing", "extracting", "completed"} :
              Cardinality(UpdIdx(d, status)) <= 1

\* C20 witness: a run that read two shards, called the model and issued
\* the completed update.
C20_Witness ==
    /\ parent[1] = "done"
    /\ Cardinality(Ok(1, Idx(1, "download"))) = 2
    /\ Idx(1, "model") # {}
    /\ UpdIdx(1, "completed") # {}

\* The positions in the run's history where a step of the extraction child
\* threw: the listing, a download, the clearing of the data directory or the
\* writing of the clause files.
ChildThrew(d) ==
    {i \in DOMAIN hist[d] :
        hist[d][i].ev \in {"list", "download", "unlink", "save"} /\ ~hist[d][i].ok}

\* The model is not called, and the completed update not issued, after a
\* step of the child threw.
StoppedAtThrow(d) ==
    \A i \in ChildThrew(d) :
        \A j \in Idx(d, "model") \cup Idx(d, "keywords") \cup UpdIdx(d, "completed") : j < i

\* C21 as stated: a run in which a step of the extraction child threw
\* leaves the record failed with no clause field written, and the model is
\* not called after the throw.
C21_Original ==
    \A d \in Docs :
        parent[d] = "done" /\ ChildThrew(d) # {} =>
            /\ records[d].status = "failed"
            /\ BothUnset(d)
            /\ StoppedAtThrow(d)

\* C21 amended: such a run issues the failed update (the child once, and
\* the parent once more); the record is left failed when one of the two was
\* applied, and otherwise in the last status that was applied before; in
\* every case no clause field is written, the completed update is not
\* issued and the model is not called after the throw.
C21_ExtractionFailure ==
    \A d \in Docs :
        parent[d] = "done" /\ ChildThrew(d) # {} =>
            /\ Cardinality(UpdIdx(d, "failed")) = 2
            /\ UpdIdx(d, "completed") = {}
            /\ records[d].status =
                  IF Persisted(d, "failed") THEN "failed"
                  ELSE IF Persisted(d, "extracting") THEN "extracting"
                  ELSE IF Persisted(d, "processing") THEN "processing"
                  ELSE "pending"
            /\ BothUnset(d)
            /\ StoppedAtThrow(d)

\* C21 witness: the second shard's download failed after the first was
\* read, and the record was left failed.
C21_Witness ==
    /\ parent[1] = "done"
    /\ \E i \in Ok(1, Idx(1, "download")) : \E j \in ChildThrew(1) :
          i < j /\ hist[1][j].ev = "download"
    /\ records[1].status = "failed"
    /\ BothUnset(1)

\* The extractor has returned after a model call that gave a response whose
\* parse (of the matched substring, or of the whole response when nothing
\* matches) succeeded.
ParsedReturned ==
    /\ xPhase = "returned"
    /\ ~xResponse.threw
    /\ Truthy(xResponse.content)
    /\ ParseResponse(xResponse.content.v).ok

Parsed == ParseResponse(xResponse.content.v).value

Present(value, field) == value.t = "object" /\ field \in DOMAIN value.v

KeywordCalls == {i \in DOMAIN calls : calls[i].fn = "keywords"}

ModelCalls == {i \in DOMAIN calls : calls[i].fn = "model"}

\* C22 as stated: when the response parses, each field of the result is
\* the parsed field's value if the field is present and its own sentinel
\* otherwise, and the keyword extractor is not called.
C22_Original ==
    ParsedReturned =>
        /\ Get(xResult, "indemnificationText") =
               (IF Present(Parsed, "indemnificationText")
                THEN Parsed.v.indemnificationText ELSE Str(NoIndemnification))
        /\ Get(xResult, "terminationText") =
               (IF Present(Parsed, "terminationText")
                THEN Parsed.v.terminationText ELSE Str(NoTermination))
        /\ KeywordCalls = {}

\* C22 amended: when the response parses to a value other than null, each
\* field of the result is the parsed field's value if the field is present
\* and truthy (not an empty string, null, 0 or false) and its own sentinel
\* otherwise, each field decided on its own, and the keyword extractor is
\* not called; when it parses to null the keyword extractor is called and
\* its result on the whole text returned.
C22_FieldsIndependently ==
    ParsedReturned =>
        IF Parsed = Null
        THEN /\ KeywordCalls # {}
             /\ xResult = Obj(extractClausesWithKeywords(xText))
        ELSE /\ Get(xResult, "indemnificationText") =
                    (IF Present(Parsed, "indemnificationText")
                        /\ Truthy(Parsed.v.indemnificationText)
                     THEN Parsed.v.indemnificationText ELSE Str(NoIndemnification))
             /\ Get(xResult, "terminationText") =
                    (IF Present(Parsed, "terminationText")
                        /\ Truthy(Parsed.v.terminationText)
                     THEN Parsed.v.terminationText ELSE Str(NoTermination))
             /\ KeywordCalls = {}

\* C22 witness: the text holds an indemnification paragraph, the response
\* only a termination clause: the result is the sentinel and the clause.
C22_Witness ==
    /\ ParsedReturned
    /\ xText = Chars("The vendor shall indemnify the client for any data breach.")
    /\ xResponse = ModelReturns(Str(JOnlyTermination))
    /\ xResult = Obj([indemnificationText |-> Str(NoIndemnification),
                      terminationText |-> TerminateAtWill])

\* The model call threw, or its response is empty or does not parse.
ModelUnusable ==
    \/ xResponse.threw
    \/ ~Truthy(xResponse.content)
    \/ ~ParseResponse(xResponse.content.v).ok

\* One model call, then at most one call of the keyword extractor.
OneModelCallFirst ==
    /\ xPhase = "start" => calls = <<>>
    /\ xPhase # "start" => ModelCalls = {1}
    /\ xPhase = "called" => KeywordCalls = {}
    /\ KeywordCalls \subseteq {2}

\* C24 as stated: the model is called once, the keyword extractor at most
\* once and after it, and only when the model call threw or its response
\* was empty or did not parse.
C24_Original ==
    /\ OneModelCallFirst
    /\ xPhase = "returned" => (KeywordCalls # {} => ModelUnusable)

\* C24 amended: the model is called once, the keyword extractor at most
\* once and after it, and exactly when the model call threw, its response
\* was empty or did not parse, or it parsed to null.
C24_OneCallThenFallback ==
    /\ OneModelCallFirst
    /\ xPhase = "returned" =>
          (KeywordCalls # {} <=> (ModelUnusable \/ Parsed = Null))

\* C24 witness: the response was the JSON text null, and the keyword
\* extractor was called after the one model call.
C24_Witness ==
    /\ xPhase = "returned"
    /\ xResponse = ModelReturns(Str(JNull))
    /\ Len(calls) = 2
    /\ calls[2] = [fn |-> "keywords", text |-> xText]

\* C25: the text given to the model is the first 15000 characters of the
\* extractor's argument, the whole of it when it is shorter; the text given
\* to the keyword extractor is the whole argument; and the result holds the
\* two clause fields and nothing that tells of the truncation.
C25_PromptPrefix ==
    /\ \A i \in ModelCalls :
          /\ Len(calls[i].text) = Min(Len(xText), 15000)
          /\ calls[i].text = SubSeq(xText, 1, Len(calls[i].text))
    /\ \A i \in KeywordCalls : calls[i].text = xText
    /\ xPhase = "returned" =>
          DOMAIN xResult.v = {"indemnificationText", "terminationText"}

\* C25 witness: the only clause of the text lies beyond the prefix: the
\* model was not given it, and the keyword extractor found it.
C25_Witness ==
    /\ xPhase = "returned"
    /\ xText = LongText
    /\ Len(calls) = 2
    /\ Len(calls[1].text) = 15000
    /\ ~Includes(calls[1].text, Chars("indemnify"))
    /\ Get(xResult, "indemnificationText") = Str(Chars("The vendor shall indemnify the client."))

\* The strings of a sequence, one after the other.
RECURSIVE ConcatAll(_)
ConcatAll(strings) ==
    IF strings = <<>> THEN <<>> ELSE Head(strings) \o ConcatAll(Tail(strings))

\* The text the walk makes of a well-formed word, paragraph, block and
\* page: the symbols' text and a space; the words and a newline; the
\* paragraphs; the blocks and a blank line.
WordText(word) ==
    ConcatAll([i \in DOMAIN word.v.symbols.v |-> word.v.symbols.v[i].v.text.v]) \o <<" ">>

ParagraphText(paragraph) ==
    ConcatAll([i \in DOMAIN paragraph.v.words.v |-> WordText(paragraph.v.words.v[i])])
        \o <<"\n">>

BlockText(block) ==
    ConcatAll([i \in DOMAIN block.v.paragraphs.v |-> ParagraphText(block.v.paragraphs.v[i])])

PageText(page) ==
    ConcatAll([i \in DOMAIN page.v.blocks.v |-> BlockText(page.v.blocks.v[i])]) \o NL2

WalkText(pages) == ConcatAll([i \in DOMAIN pages |-> PageText(pages[i])])

\* The response carries the flattened text.
HasFlat(response) == Truthy(Get(Get(response, "fullTextAnnotation"), "text"))

\* The flattened texts of a shard's responses, a blank line after each.
DirectText(shard) ==
    ConcatAll([i \in DOMAIN shard.v.responses.v |->
        IF HasFlat(shard.v.responses.v[i])
        THEN shard.v.responses.v[i].v.fullTextAnnotation.v.text.v \o NL2
        ELSE <<>>])

\* The pages of a shard's first response, if it has any.
FirstPages(shard) ==
    LET pages == Get(Get(shard.v.responses.v[1], "fullTextAnnotation"), "pages")
    IN  IF Truthy(pages) THEN pages.v ELSE <<>>

\* What texts of shards make of the assembled text: each one that is not
\* empty, and a blank line.
RECURSIVE Assembled(_)
Assembled(texts) ==
    IF texts = <<>> THEN <<>>
    ELSE (IF Head(texts) = <<>> THEN <<>> ELSE Head(texts) \o NL2)
             \o Assembled(Tail(texts))

\* The files the loop has read so far.
FilesRead(d) == SubSeq(child[d].files, 1, child[d].i - 1)

\* The text of a shard: the flattened texts when there is one, and the
\* walk of the first response's pages when there is none, trimmed.
WalkedText(shard) ==
    Trim(IF DirectText(shard) # <<>> THEN DirectText(shard)
         ELSE WalkText(FirstPages(shard)))

\* C23: each shard read adds to the assembled text its flattened texts
\* when a response carries one, and otherwise the walk of its pages, with a
\* space after each word, a newline after each paragraph and a blank line
\* after each page, trimmed; the shard of one page, one block, one paragraph
\* and two words yields "word1 word2".
C23_WalkWhenNoDirectText ==
    /\ \A d \in Docs : child[d].combinedText = Assembled([i \in DOMAIN FilesRead(d) |-> WalkedText(FilesRead(d)[i].content.json)])
    /\ extractTextFromOcrJson(ShardWalk) = Chars("word1 word2")
    /\ extractTextFromOcrJson(ShardBoth) = Chars("Both")

\* C23 witness: the two-word shard and then the two-page shard were read.
C23_Witness ==
    /\ child[1].i = 3
    /\ child[1].combinedText =
          Chars("word1 word2") \o NL2 \o Chars("ab \n\n\ncd") \o NL2

\* A shard without what the claim says is not read: the responses that
\* carry the flattened text, with nothing else in them, when there is one;
\* the first response alone when there is none.
TextOnly(response) ==
    Obj([fullTextAnnotation |->
            Obj([text |-> Get(Get(response, "fullTextAnnotation"), "text")])])

Reduced(shard) ==
    Obj([responses |->
        Arr(IF \E i \in DOMAIN shard.v.responses.v : HasFlat(shard.v.responses.v[i])
            THEN LET flat == SelectSeq(shard.v.responses.v, HasFlat)
                 IN  [i \in DOMAIN flat |-> TextOnly(flat[i])]
            ELSE <<shard.v.responses.v[1]>>)])

ReducedText(shard) == WalkedText(Reduced(shard))

\* C28: what a shard adds to the assembled text does not change when the
\* second and later responses are removed from a shard none of whose
\* responses carries the flattened text, nor when the pages and the
\* responses without the flattened text are removed from a shard one of
\* whose responses carries it.
C28_FirstResponseOnly ==
    /\ \A d \in Docs : child[d].combinedText = Assembled([i \in DOMAIN FilesRead(d) |-> ReducedText(FilesRead(d)[i].content.json)])
    /\ extractTextFromOcrJson(ShardLaterPages) = Chars("ab")
    /\ extractTextFromOcrJson(ShardPagesSecond) = <<>>
    /\ extractTextFromOcrJson(ShardMixed) = Chars("Flat")

\* C28 witness: the shard with pages in two responses was read, then the
\* one with pages in the first and the flattened text in the second.
C28_Witness ==
    /\ child[1].i = 3
    /\ child[1].files[1].content.json = ShardLaterPages
    /\ child[1].files[2].content.json = ShardMixed
    /\ child[1].combinedText = Chars("ab") \o NL2 \o Chars("Flat") \o NL2

\* The clause fields of a record, and the request gives one a value that
\* is a string and not empty.
ClauseFields == {"indemnificationText", "terminationText"}

Supplied(data, f) == f \in DOMAIN data /\ IsString(data[f]) /\ data[f].v # <<>>

\* The request leaves the field out or gives it the empty string.
OmittedOrEmpty(data, f) == f \notin DOMAIN data \/ (IsString(data[f]) /\ data[f].v = <<>>)

\* C27: an update request makes and removes no record and changes no
\* record but the one it names; of that one it leaves fileName, uploadedAt
\* and progress as they were, and each clause field that it omits or gives
\* as the empty string; when it is applied the status is the one supplied
\* and each clause field supplied with a non-empty string is that string;
\* a clause text the record holds is not null after a failed update.
C27_OnlyStatusAndSuppliedClauses ==
    [][\A i \in DOMAIN Added :
          Added[i].ev = "put" =>
              /\ DOMAIN records' = DOMAIN records
              /\ \A r \in DOMAIN records : r # Added[i].id => records'[r] = records[r]
              /\ Added[i].code # 200 => records' = records
              /\ Added[i].id \in DOMAIN records =>
                    LET before == records[Added[i].id]
                        after == records'[Added[i].id]
                        data == Added[i].data
                    IN  /\ \A f \in {"fileName", "uploadedAt", "progress"} :
                              after[f] = before[f]
                        /\ after.progress = 0
                        /\ \A f \in ClauseFields :
                              /\ OmittedOrEmpty(data, f) => after[f] = before[f]
                              /\ Added[i].code = 200 /\ Supplied(data, f) =>
                                    after[f] = data[f]
                              /\ "status" \in DOMAIN data /\ data.status = "failed"
                                 /\ before[f] # Null => after[f] # Null
                        /\ Added[i].code = 200 => after.status = data.status]_vars

\* C27 witness: a record given both clause texts was then reported failed
\* with an empty clause field, and holds both texts, its file name, its
\* upload time and progress 0.
C27_Witness ==
    /\ \E i, j \in Requests("put") :
          /\ i < j
          /\ web[i].id = 1 /\ web[i].code = 200 /\ web[i].data.status = "completed"
          /\ web[j] = PutEvent(1, [status |-> "failed", indemnificationText |-> Str(<<>>)], 200)
    /\ records[1] = [NewRecord(1) EXCEPT !.status = "failed",
                                          !.indemnificationText = VendorIndemnifies,
                                          !.terminationText = TerminateAtWill]

\* The update the step adds to the history of document d, if it adds one.
UpdateAdded(d) == SubSeq(hist'[d], Len(hist[d]) + 1, Len(hist'[d]))

\* C26: an update that reaches the store for a record that is there is
\* applied whatever the record's status is, and after every applied update
\* of a run or of a second run of the same document the record's status is
\* the one supplied.
C26_LastWriteWins ==
    [][\A d \in Docs :
          /\ \A status \in ContractStatus :
                LET sent == SendUpdate(records, d, ParentPayload(status), TRUE)
                IN  sent.ok /\ sent.store[d].status = status
          /\ \A i \in DOMAIN UpdateAdded(d) :
                UpdateAdded(d)[i].ev = "update" /\ UpdateAdded(d)[i].ok =>
                    records'[d].status = UpdateAdded(d)[i].arg]_vars

\* C26 witness: the run completed the record with both clause texts, the
\* document was submitted again, and the second run's first update was
\* applied: the record is processing again.
C26_Witness ==
    /\ Requests("exec") # {}
    /\ \E i \in UpdIdx(1, "completed") :
          /\ hist[1][i].ok
          /\ Len(hist[1]) > i
          /\ hist[1][Len(hist[1])] = Event("update", "processing", TRUE)
    /\ records[1].status = "processing"
    /\ BothSet(1)

=============================================================================
